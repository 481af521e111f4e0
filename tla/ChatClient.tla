------------------------------- MODULE ChatClient -------------------------------
(***************************************************************************)
(* One running app (public/app.js) and the turns it follows: sessions,      *)
(* readers, chat switches, reloads, reconcileJobs/deliverResult and the      *)
(* collect acknowledgement. The question here is not how bytes travel (that  *)
(* is ChatJob) but who consumes which run: the app keeps ONE liveJob pointer,*)
(* ONE liveSession and ONE readerActive flag for all its chats, and every    *)
(* await in between lets another handler run.                                *)
(*                                                                           *)
(* Each chat runs one turn. The server is abstracted to the length of the    *)
(* turn's event list and its phase; event 0 is `job`, the last one of a turn *)
(* that halted is its verdict, the others are text. The replay of            *)
(* /chat/attach is the exact RAM one.                                        *)
(***************************************************************************)
EXTENDS Integers, Sequences, FiniteSets

CONSTANTS
  Chats,           \* the chats of this app
  MaxLen,          \* bound: events of a turn
  MaxSessions,     \* bound: sessions (newSession calls)
  MaxReaders,      \* bound: SSE responses opened
  MaxSwitches,     \* bound: chat switches
  MaxReloads,      \* bound: app reloads
  MaxCuts,         \* bound: connections that die
  MaxLostCollects, \* bound: POST /chat/collect requests that never arrive
  \* What the user and the clock may do. FALSE removes the case.
  EarlyLeave,      \* leave or reload a chat before the job id has arrived
  LeaveAttached,   \* leave a chat while a reattach stream is open
  SlowList,        \* a turn is merged between the /chat/jobs snapshot and its use
  OpenWhileFetching, \* open a chat while its result is being fetched
  CutWhileClosing  \* a stream dies between `stopped` and the seal

(* Nobody's chat. *)
NoChat == "none"

ASSUME ChatClientConstants ==
  /\ NoChat \notin Chats
  /\ MaxLen \in Nat \ {0, 1} /\ MaxSessions \in Nat /\ MaxReaders \in Nat
  /\ MaxSwitches \in Nat /\ MaxReloads \in Nat /\ MaxCuts \in Nat
  /\ MaxLostCollects \in Nat
  /\ {EarlyLeave, LeaveAttached, SlowList, OpenWhileFetching, CutWhileClosing}
       \subseteq BOOLEAN

VARIABLES
  srv,          \* per chat: the server's job
  curId,        \* the chat on screen
  liveJobs,     \* per chat: the liveJobs entry (localStorage survives reloads)
  liveJob,      \* the chat whose entry the liveJob pointer names, or NoChat
  sessions,     \* every session created, in order
  liveSession,  \* index of the on-screen session, 0 for null
  readers,      \* every SSE response opened, in order
  readerActive,
  recon,        \* where reconcileJobs is
  mergedJobs,   \* chats whose run was merged since the last reload
  transcript,   \* history: how often a run was merged into its chat
  acks,         \* collect requests on the wire
  spent

clientVars == <<srv, curId, liveJobs, liveJob, sessions, liveSession, readers,
                readerActive, recon, mergedJobs, transcript, acks, spent>>

uiVars == <<liveJobs, liveJob, sessions, liveSession, readers, readerActive>>

Phases == {"none", "running", "closing", "over"}
Job == [len : 0 .. MaxLen, phase : Phases, collected : BOOLEAN]

(* id: the entry holds the job id ("prov": the provisional entry of a POST   *)
(* whose first event has not arrived).                                       *)
Entry == [id : {NoChat, "prov", "known"}, eventIndex : Nat]

Session == [chat : Chats, seen : Seq(Nat), verdict : BOOLEAN, detached : BOOLEAN,
            jobId : BOOLEAN]
Reader == [session : Nat, kind : {"post", "attach"}, next : Nat, open : BOOLEAN]

(* reconcileJobs: `list` is the /chat/jobs snapshot still to be worked off,   *)
(* `fetching` the chat whose /chat/result is awaited.                         *)
Reconcile == [busy : BOOLEAN,
              list : SUBSET [chat : Chats, running : BOOLEAN, collected : BOOLEAN],
              fetching : Chats \cup {NoChat}]

ClientTypeOK ==
  /\ srv \in [Chats -> Job]
  /\ curId \in Chats
  /\ liveJobs \in [Chats -> Entry]
  /\ liveJob \in Chats \cup {NoChat}
  /\ sessions \in Seq(Session) /\ Len(sessions) <= MaxSessions
  /\ liveSession \in 0 .. Len(sessions)
  /\ readers \in Seq(Reader) /\ Len(readers) <= MaxReaders
  /\ readerActive \in BOOLEAN
  /\ recon \in Reconcile
  /\ mergedJobs \subseteq Chats
  /\ transcript \in [Chats -> Nat]
  /\ acks \subseteq Chats
  /\ spent \in [switches : Nat, reloads : Nat, cuts : Nat, lost : Nat]

Idle == [busy |-> FALSE, list |-> {}, fetching |-> NoChat]

ClientInit ==
  /\ srv = [c \in Chats |-> [len |-> 0, phase |-> "none", collected |-> FALSE]]
  /\ curId \in Chats
  /\ liveJobs = [c \in Chats |-> [id |-> NoChat, eventIndex |-> 0]]
  /\ liveJob = NoChat
  /\ sessions = <<>> /\ liveSession = 0
  /\ readers = <<>> /\ readerActive = FALSE
  /\ recon = Idle
  /\ mergedJobs = {}
  /\ transcript = [c \in Chats |-> 0]
  /\ acks = {}
  /\ spent = [switches |-> 0, reloads |-> 0, cuts |-> 0, lost |-> 0]

-----------------------------------------------------------------------------
(* The server's side of a turn. *)

EmitText(c) ==
  /\ srv[c].phase = "running" /\ srv[c].len < MaxLen - 1
  /\ srv' = [srv EXCEPT ![c].len = @ + 1]
  /\ UNCHANGED <<curId, uiVars, recon, mergedJobs, transcript, acks, spent>>

(* The verdict is emitted; /chat/jobs still lists the run as running while    *)
(* settlement is awaited.                                                     *)
EmitVerdict(c) ==
  /\ srv[c].phase = "running"
  /\ srv' = [srv EXCEPT ![c].len = @ + 1, ![c].phase = "closing"]
  /\ UNCHANGED <<curId, uiVars, recon, mergedJobs, transcript, acks, spent>>

Seal(c) ==
  /\ srv[c].phase = "closing"
  /\ srv' = [srv EXCEPT ![c].phase = "over"]
  /\ UNCHANGED <<curId, uiVars, recon, mergedJobs, transcript, acks, spent>>

(* POST /chat/collect arrives, or never does: collectJob neither waits nor    *)
(* retries.                                                                   *)
Collect(c) ==
  /\ c \in acks /\ acks' = acks \ {c}
  /\ srv' = [srv EXCEPT ![c].collected = TRUE]
  /\ UNCHANGED <<curId, uiVars, recon, mergedJobs, transcript, spent>>

LoseCollect(c) ==
  /\ c \in acks /\ spent.lost < MaxLostCollects
  /\ acks' = acks \ {c}
  /\ spent' = [spent EXCEPT !.lost = @ + 1]
  /\ UNCHANGED <<srv, curId, uiVars, recon, mergedJobs, transcript>>

-----------------------------------------------------------------------------
newSession(c, jobId) ==
  [chat |-> c, seen |-> <<>>, verdict |-> FALSE, detached |-> FALSE, jobId |-> jobId]

busyFor(c) == liveJobs[c].id # NoChat

(* streamReply: the provisional entry makes the chat busy before the POST.    *)
streamReply ==
  LET c == curId
  IN /\ ~busyFor(c) /\ srv[c].phase = "none"
     /\ Len(sessions) < MaxSessions /\ Len(readers) < MaxReaders
     /\ srv' = [srv EXCEPT ![c] = [len |-> 1, phase |-> "running", collected |-> FALSE]]
     /\ sessions' = Append(sessions, newSession(c, FALSE))
     /\ liveSession' = Len(sessions')
     /\ liveJobs' = [liveJobs EXCEPT ![c] = [id |-> "prov", eventIndex |-> 0]]
     /\ liveJob' = c
     /\ readers' = Append(readers,
          [session |-> liveSession', kind |-> "post", next |-> 0, open |-> TRUE])
     /\ readerActive' = TRUE
     /\ UNCHANGED <<curId, recon, mergedJobs, transcript, acks, spent>>

SessionOf(r) == sessions[readers[r].session]

IsVerdict(c, n) == srv[c].phase \in {"closing", "over"} /\ n = srv[c].len - 1

(* readSse takes one event off a stream: processEvent works on the stream's   *)
(* own session, but the job event and the cursor bookkeeping act on whatever  *)
(* the global pointer names.                                                  *)
readSse(r) ==
  LET s == readers[r].session
      c == SessionOf(r).chat
      n == readers[r].next
      pointer == IF n = 0 THEN c ELSE liveJob
      entries == IF n = 0
                 THEN [liveJobs EXCEPT ![c] = [id |-> "known", eventIndex |-> 0]]
                 ELSE liveJobs
  IN /\ readers[r].open /\ n < srv[c].len
     /\ readers' = [readers EXCEPT ![r].next = n + 1]
     /\ sessions' = [sessions EXCEPT
          ![s].jobId = @ \/ n = 0,
          ![s].verdict = @ \/ IsVerdict(c, n),
          ![s].seen = IF n = 0 \/ IsVerdict(c, n) THEN @ ELSE Append(@, n)]
     /\ liveJob' = pointer
     /\ liveJobs' = IF pointer # NoChat /\ entries[pointer].id = "known"
                    THEN [entries EXCEPT ![pointer].eventIndex = @ + 1]
                    ELSE entries
     /\ UNCHANGED <<srv, curId, liveSession, readerActive, recon, mergedJobs,
                    transcript, acks, spent>>

-----------------------------------------------------------------------------
(* finalizeSession: append the message, drop the entry, acknowledge. It does  *)
(* not consult mergedJobs.                                                    *)
finalizeSession(s) ==
  LET c == sessions[s].chat
      merges == sessions[s].verdict
  IN /\ transcript' = IF merges THEN [transcript EXCEPT ![c] = @ + 1] ELSE transcript
     /\ mergedJobs' = IF merges THEN mergedJobs \cup {c} ELSE mergedJobs
     /\ acks' = IF merges THEN acks \cup {c} ELSE acks
     /\ liveJobs' = [liveJobs EXCEPT ![c].id = NoChat]
     /\ liveSession' = IF liveSession = s THEN 0 ELSE liveSession
     /\ liveJob' = IF liveSession = s THEN NoChat ELSE liveJob

(* A stream ended: the code after readSse in streamReply and attemptReattach. *)
(* A run whose id is known and that has no verdict yet is retried, so only    *)
(* the reader goes away.                                                      *)
AfterReader(r) ==
  LET s == readers[r].session
      st == sessions[s]
  IN /\ SlowList \/ recon.list = {}
     /\ readers' = [readers EXCEPT ![r].open = FALSE]
     /\ readerActive' = FALSE
     /\ IF ~st.detached /\ (st.verdict \/ ~st.jobId)
        THEN finalizeSession(s)
        ELSE UNCHANGED <<transcript, mergedJobs, acks, liveJobs, liveSession, liveJob>>
     /\ UNCHANGED <<srv, curId, sessions, recon>>

StreamEnds(r) ==
  /\ readers[r].open
  /\ srv[SessionOf(r).chat].phase = "over"
  /\ readers[r].next >= srv[SessionOf(r).chat].len
  /\ AfterReader(r)
  /\ UNCHANGED spent

StreamDies(r) ==
  /\ readers[r].open /\ spent.cuts < MaxCuts
  /\ CutWhileClosing \/ ~SessionOf(r).verdict
  /\ AfterReader(r)
  /\ spent' = [spent EXCEPT !.cuts = @ + 1]

-----------------------------------------------------------------------------
(* May the user leave now? The switches restrict only the environment.        *)
MayLeave ==
  /\ EarlyLeave \/ \A c \in Chats : liveJobs[c].id # "prov"
  /\ LeaveAttached \/ \A r \in DOMAIN readers :
                        readers[r].open => readers[r].kind # "attach"

(* switchChat: detachCurrentSession lets go of the session and aborts the     *)
(* POST response. A reattach response has no abort signal: its reader lives   *)
(* on. maybeReattach then points liveJob at the new chat's entry.             *)
switchChat(to) ==
  /\ to # curId /\ spent.switches < MaxSwitches /\ MayLeave
  /\ OpenWhileFetching \/ recon.fetching # to
  /\ curId' = to
  /\ sessions' = IF liveSession # 0
                 THEN [sessions EXCEPT ![liveSession].detached = TRUE] ELSE sessions
  /\ readers' = [r \in DOMAIN readers |->
       IF readers[r].kind = "post" /\ readers[r].session = liveSession
       THEN [readers[r] EXCEPT !.open = FALSE] ELSE readers[r]]
  /\ liveSession' = 0
  /\ readerActive' = FALSE
  /\ liveJob' = IF liveJobs[to].id = "known" THEN to ELSE NoChat
  /\ spent' = [spent EXCEPT !.switches = @ + 1]
  /\ UNCHANGED <<srv, liveJobs, recon, mergedJobs, transcript, acks>>

(* Reload: localStorage keeps the chats and liveJobs, nothing else survives.  *)
(* Only where an acknowledgement may be lost can a reload overtake one.       *)
Reload ==
  /\ spent.reloads < MaxReloads /\ MayLeave
  /\ acks = {} \/ MaxLostCollects > 0
  /\ liveJob' = NoChat /\ liveSession' = 0 /\ readerActive' = FALSE
  /\ sessions' = [s \in DOMAIN sessions |-> [sessions[s] EXCEPT !.detached = TRUE]]
  /\ readers' = [r \in DOMAIN readers |-> [readers[r] EXCEPT !.open = FALSE]]
  /\ recon' = Idle
  /\ mergedJobs' = {}
  /\ spent' = [spent EXCEPT !.reloads = @ + 1]
  /\ UNCHANGED <<srv, curId, liveJobs, transcript, acks>>

(* Seeded fault: the new session is not stored.                              *)
attemptReattach_NoSession ==
  LET c == curId
      fresh == liveSession = 0
      from == IF fresh THEN 0 ELSE liveJobs[c].eventIndex
      s == IF fresh THEN Len(sessions) + 1 ELSE liveSession
  IN /\ ~readerActive /\ liveJobs[c].id = "known"
     /\ OpenWhileFetching \/ recon.fetching # c
     /\ fresh => Len(sessions) < MaxSessions
     /\ Len(readers) < MaxReaders
     /\ liveJob' = c
     /\ liveSession' = s
     /\ liveJobs' = [liveJobs EXCEPT ![c].eventIndex = from]
     /\ readerActive' = TRUE
     /\ UNCHANGED <<sessions, readers, srv, curId, recon, mergedJobs, transcript,
                    acks, spent>>

(* Seeded fault: a fresh session resumes at the old cursor instead of at 0.  *)
attemptReattach_OldCursor ==
  LET c == curId
      fresh == liveSession = 0
      from == liveJobs[c].eventIndex
      s == IF fresh THEN Len(sessions) + 1 ELSE liveSession
  IN /\ ~readerActive /\ liveJobs[c].id = "known"
     /\ OpenWhileFetching \/ recon.fetching # c
     /\ fresh => Len(sessions) < MaxSessions
     /\ Len(readers) < MaxReaders
     /\ liveJob' = c
     /\ sessions' = IF fresh THEN Append(sessions, newSession(c, TRUE)) ELSE sessions
     /\ liveSession' = s
     /\ readers' = Append(readers,
          [session |-> s, kind |-> "attach", open |-> TRUE,
           next |-> IF from > srv[c].len THEN srv[c].len ELSE from])
     /\ readerActive' = TRUE
     /\ UNCHANGED <<srv, curId, liveJobs, recon, mergedJobs, transcript, acks, spent>>

(* The backoff timer, the heartbeat or the app becoming visible: reattach the *)
(* on-screen run if the flag says that nobody reads it. A kept session        *)
(* resumes at its cursor, a fresh one starts at 0.                            *)
attemptReattach ==
  LET c == curId
      fresh == liveSession = 0
      from == IF fresh THEN 0 ELSE liveJobs[c].eventIndex
      s == IF fresh THEN Len(sessions) + 1 ELSE liveSession
  IN /\ ~readerActive /\ liveJobs[c].id = "known"
     /\ OpenWhileFetching \/ recon.fetching # c
     /\ fresh => Len(sessions) < MaxSessions
     /\ Len(readers) < MaxReaders
     /\ liveJob' = c
     /\ sessions' = IF fresh THEN Append(sessions, newSession(c, TRUE)) ELSE sessions
     /\ liveSession' = s
     /\ liveJobs' = [liveJobs EXCEPT ![c].eventIndex = from]
     /\ readers' = Append(readers,
          [session |-> s, kind |-> "attach", open |-> TRUE,
           next |-> IF from > srv[c].len THEN srv[c].len ELSE from])
     /\ readerActive' = TRUE
     /\ UNCHANGED <<srv, curId, recon, mergedJobs, transcript, acks, spent>>

-----------------------------------------------------------------------------
(* reconcileJobs: take the snapshot ...                                       *)
ReconcileList ==
  /\ ~recon.busy
  /\ recon' = [busy |-> TRUE, fetching |-> NoChat,
               list |-> { [chat |-> c, running |-> srv[c].phase # "over",
                           collected |-> srv[c].collected] :
                          c \in {x \in Chats : srv[x].phase # "none"} }]
  /\ \E c \in Chats : srv[c].phase # "none" /\ ~srv[c].collected
  /\ UNCHANGED <<srv, curId, uiVars, mergedJobs, transcript, acks, spent>>

(* ... adopt a run it says is running and this device does not know ...       *)
ReconcileRunning(j) ==
  /\ recon.fetching = NoChat /\ j \in recon.list /\ j.running
  /\ liveJobs' = IF busyFor(j.chat) THEN liveJobs
                 ELSE [liveJobs EXCEPT ![j.chat] = [id |-> "known", eventIndex |-> 0]]
  /\ recon' = [recon EXCEPT !.list = @ \ {j}]
  /\ UNCHANGED <<srv, curId, liveJob, sessions, liveSession, readers, readerActive,
                 mergedJobs, transcript, acks, spent>>

(* Seeded fault: mergedJobs is not consulted.                                *)
ReconcileFinished_Again(j) ==
  LET c == j.chat
      skip == j.collected \/ (liveSession # 0 /\ sessions[liveSession].chat = c)
  IN /\ recon.fetching = NoChat /\ j \in recon.list /\ ~j.running
     /\ recon' = [recon EXCEPT !.list = @ \ {j},
                               !.fetching = IF skip THEN NoChat ELSE c]
     /\ UNCHANGED <<srv, curId, uiVars, mergedJobs, transcript, acks, spent>>

(* ... start to deliver one it says is finished and uncollected, unless it    *)
(* was merged already or its chat is streaming on screen ...                  *)
ReconcileFinished(j) ==
  LET c == j.chat
      skip == j.collected \/ c \in mergedJobs
              \/ (liveSession # 0 /\ sessions[liveSession].chat = c)
  IN /\ recon.fetching = NoChat /\ j \in recon.list /\ ~j.running
     /\ recon' = [recon EXCEPT !.list = @ \ {j},
                               !.fetching = IF skip THEN NoChat ELSE c]
     /\ liveJobs' = IF ~j.collected /\ c \in mergedJobs /\ liveJobs[c].id = "known"
                    THEN [liveJobs EXCEPT ![c].id = NoChat] ELSE liveJobs
     /\ UNCHANGED <<srv, curId, liveJob, sessions, liveSession, readers,
                    readerActive, mergedJobs, transcript, acks, spent>>

(* Seeded fault: the delivered run's entry is kept.                          *)
deliverResult_KeepsEntry ==
  LET c == recon.fetching
  IN /\ c # NoChat
     /\ recon' = [recon EXCEPT !.fetching = NoChat]
     /\ mergedJobs' = mergedJobs \cup {c}
     /\ transcript' = [transcript EXCEPT ![c] = @ + 1]
     /\ acks' = acks \cup {c}
     /\ UNCHANGED <<srv, curId, uiVars, spent>>

(* ... and, when /chat/result answers, append it. The entry is dropped only   *)
(* if it carries this job's id.                                               *)
deliverResult ==
  LET c == recon.fetching
  IN /\ c # NoChat
     /\ recon' = [recon EXCEPT !.fetching = NoChat]
     /\ mergedJobs' = mergedJobs \cup {c}
     /\ transcript' = [transcript EXCEPT ![c] = @ + 1]
     /\ liveJobs' = IF liveJobs[c].id = "known"
                    THEN [liveJobs EXCEPT ![c].id = NoChat] ELSE liveJobs
     /\ acks' = acks \cup {c}
     /\ UNCHANGED <<srv, curId, liveJob, sessions, liveSession, readers,
                    readerActive, spent>>

(* The loop is done; maybeReattach is attemptReattach's own trigger.          *)
ReconcileDone ==
  /\ recon.busy /\ recon.list = {} /\ recon.fetching = NoChat
  /\ recon' = Idle
  /\ UNCHANGED <<srv, curId, uiVars, mergedJobs, transcript, acks, spent>>

-----------------------------------------------------------------------------
ReconcileStep ==
  \/ ReconcileList \/ ReconcileDone \/ deliverResult
  \/ \E j \in recon.list : ReconcileRunning(j) \/ ReconcileFinished(j)

ReaderStep == \E r \in DOMAIN readers : readSse(r) \/ StreamEnds(r)

ServerStep == \E c \in Chats : EmitText(c) \/ EmitVerdict(c) \/ Seal(c)

ClientNext ==
  \/ ServerStep
  \/ \E c \in Chats : Collect(c) \/ LoseCollect(c)
  \/ streamReply \/ ReaderStep \/ attemptReattach
  \/ \E r \in DOMAIN readers : StreamDies(r)
  \/ \E c \in Chats : switchChat(c)
  \/ Reload
  \/ ReconcileStep

ClientSpec == ClientInit /\ [][ClientNext]_clientVars

(* Turns end and seal by themselves; an open stream delivers what is there;   *)
(* the backoff timer, the 20 second heartbeat and the awaits of reconcileJobs *)
(* all fire eventually.                                                       *)
ClientFairness ==
  /\ WF_clientVars(ServerStep)
  /\ WF_clientVars(ReaderStep)
  /\ WF_clientVars(attemptReattach)
  /\ WF_clientVars(ReconcileStep)
  /\ WF_clientVars(\E c \in Chats : Collect(c))

ClientFairSpec == ClientSpec /\ ClientFairness

-----------------------------------------------------------------------------
(* A run is merged into its chat at most once, whoever gets there: the        *)
(* on-screen finalize, a reconcile delivery, or either of them after a        *)
(* reload.                                                                    *)
MergedOnce == \A c \in Chats : transcript[c] <= 1

(* The events a cursor counts as text: the job event and the verdict are not. *)
TextCount(eventIndex, verdict) ==
  LET n == eventIndex - 1 - (IF verdict THEN 1 ELSE 0) IN IF n < 0 THEN 0 ELSE n

(* The on-screen session has consumed exactly the events its resume cursor    *)
(* says, in order and once each, so that the next reattach neither skips nor  *)
(* repeats any.                                                               *)
CursorExact ==
  LET s == sessions[liveSession]
  IN liveSession # 0 /\ liveJobs[s.chat].id = "known"
       => s.seen = [i \in 1 .. TextCount(liveJobs[s.chat].eventIndex, s.verdict) |-> i]

(* A turn that was sent ends up in its chat, and the chat stops reading as    *)
(* busy: the composer comes back, sync resumes.                               *)
RunSettles ==
  \A c \in Chats : srv[c].phase = "running" ~> transcript[c] >= 1 /\ ~busyFor(c)
=============================================================================
