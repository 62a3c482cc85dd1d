------------------------------ MODULE Recording -----------------------------
(***************************************************************************)
(* The recorder of one owner (lib/recorder.ts): a RecorderSession, reused  *)
(* from recording to recording, with the Chromium each start launches, the *)
(* queue of callbacks that write the trace, the idle timer, and the routes *)
(* that start, view and stop (app/api/record).  An await lets the other    *)
(* handlers in, and what they changed is what it finds when it returns.    *)
(*                                                                         *)
(* An action is known by the recording it was accepted in and its number   *)
(* there.  Browser, context and page are one handle.  What a capture reads *)
(* and the frames themselves are left out.                                 *)
(***************************************************************************)
EXTENDS Naturals, Sequences

CONSTANTS
    Recordings,  \* the recordings, each of a start of its own
    Nobody,
    MaxActions,  \* MAX_ACTIONS
    MaxGone      \* bound of the model on browsers that crash

ASSUME RecorderAssumption ==
    /\ Nobody \notin Recordings /\ MaxActions \in Nat \ {0} /\ MaxGone \in Nat

VARIABLES
    state,     \* this.state, or Nobody
    handle,    \* this.browser: the start that launched it, or Nobody
    chromium,  \* the browser process of each start
    accepted,  \* this.accepted
    tail,      \* the callbacks that are chained to this.tail
    slot,      \* the index that the running callback has read, or MaxActions
    wedged,    \* this.tail is rejected, and stays so
    idle,      \* the idle timer is set
    closers,   \* who awaits the close of which browser
    starting,  \* where each start is, and the callback it waits for
    stopping,  \* the call to stop, and what it is to save
    gone,
    mixed      \* history: the recording met what another left behind

recVars == <<state, handle, chromium, accepted, tail, slot, wedged, idle,
             closers, starting, stopping, gone, mixed>>

Action == [by : Recordings, n : 1..MaxActions]
Entry == [by : Recordings, n : 1..MaxActions, idx : 0..(MaxActions - 1)]
Someone == Recordings \cup {Nobody}
NoAction == [by |-> Nobody, n |-> 0]
NoStop == [at |-> "none", last |-> NoAction, owed |-> 0, of |-> Nobody, kept |-> 0]

RecTypeOK ==
    /\ state = Nobody \/
         /\ state.session \in Recordings /\ state.saved \in Someone
         /\ state.status \in {"recording", "stopped", "saved"}
         /\ \A i \in DOMAIN state.trace : state.trace[i] \in Entry
    /\ handle \in Someone
    /\ chromium \in [Recordings -> {"none", "open", "closing", "closed"}]
    /\ accepted \in 0..MaxActions /\ slot \in 0..MaxActions
    /\ \A i \in DOMAIN tail : tail[i] \in Action
    /\ {wedged, idle, mixed} \subseteq BOOLEAN
    /\ closers \subseteq [who : Recordings \cup {"stop", "idle", "event"}, of : Someone]
    /\ starting \in [Recordings -> [at : {"none", "drain", "close", "launch", "goto",
                                        "fail", "done"},
                                  last : Action \cup {NoAction}]]
    /\ stopping.at \in {"none", "drain", "close", "save"} /\ gone \in 0..MaxGone

RecInit ==
    /\ state = Nobody /\ handle = Nobody
    /\ chromium = [s \in Recordings |-> "none"]
    /\ accepted = 0 /\ tail = <<>> /\ slot = MaxActions /\ wedged = FALSE
    /\ idle = FALSE /\ closers = {} /\ stopping = NoStop
    /\ starting = [s \in Recordings |-> [at |-> "none", last |-> NoAction]]
    /\ gone = 0 /\ mixed = FALSE

-----------------------------------------------------------------------------
IsBusy == state # Nobody /\ state.status = "recording"
Stopped == IF IsBusy THEN [state EXCEPT !.status = "stopped"] ELSE state

\* await this.tail: the last callback of now has run.
LastOfTail == IF tail = <<>> THEN NoAction ELSE tail[Len(tail)]
Drained(last) == \A i \in DOMAIN tail : tail[i] # last

\* closeBrowser, up to its await
CloseBrowser(who) ==
    /\ idle' = FALSE
    /\ closers' = closers \cup {[who |-> who, of |-> handle]}
    /\ chromium' = [s \in Recordings |->
                       IF s = handle /\ chromium[s] = "open" THEN "closing"
                       ELSE chromium[s]]

\* and from there: whatever the handle is by now, it is cleared.
Returns(who) ==
    \E c \in closers :
        /\ c.who = who /\ c.of \in {Nobody} \cup {s \in Recordings : chromium[s] = "closed"}
        /\ closers' = closers \ {c} /\ handle' = Nobody

StartAt(s, where) == starting' = [starting EXCEPT ![s] = [at |-> where, last |-> NoAction]]

-----------------------------------------------------------------------------
(* start.                                                                  *)

\* Mutated form: the count of the last recording goes on.
StillAccepted == accepted

NoneAccepted == 0

\* A new state.  Nothing that is still pending of another recording is stopped.
Begin(s, pending) ==
    /\ state' = [session |-> s, status |-> "recording", trace |-> <<>>, saved |-> Nobody]
    /\ accepted' = NoneAccepted /\ StartAt(s, "launch")
    /\ mixed' = \/ pending # {} \/ tail # <<>> \/ stopping # NoStop
                \/ \E t \in Recordings \ {s} : \/ starting[t].at \notin {"none", "done"}
                                             \/ chromium[t] \in {"open", "closing"}

\* "An explicit Start means begin fresh - drain and tear down the old session".
Start(s) ==
    /\ starting[s].at = "none"
    /\ IF IsBusy
       THEN /\ starting' = [starting EXCEPT ![s] = [at |-> "drain", last |-> LastOfTail]]
            /\ UNCHANGED <<state, accepted, mixed>>
       ELSE Begin(s, closers)
    /\ UNCHANGED <<handle, chromium, tail, slot, wedged, idle, closers, stopping, gone>>

TearDown(s) ==
    /\ starting[s].at = "drain" /\ Drained(starting[s].last)
    /\ CloseBrowser(s) /\ StartAt(s, "close")
    /\ UNCHANGED <<state, handle, accepted, tail, slot, wedged, stopping, gone, mixed>>

BeginFresh(s) ==
    /\ starting[s].at = "close" /\ Returns(s) /\ Begin(s, closers')
    /\ UNCHANGED <<chromium, tail, slot, wedged, idle, stopping, gone>>

\* launchBrowser, newContext, newPage, and the handlers.
LaunchBrowser(s) ==
    /\ starting[s].at = "launch" /\ StartAt(s, "goto")
    /\ chromium' = [chromium EXCEPT ![s] = "open"] /\ handle' = s
    /\ mixed' = (mixed \/ closers # {})
    /\ UNCHANGED <<state, accepted, tail, slot, wedged, idle, closers, stopping,
                   gone>>

\* enqueue: bounded "at the point of entry, before anything is scheduled".
Enqueue ==
    IF IsBusy /\ accepted < MaxActions
    THEN /\ accepted' = accepted + 1
         /\ tail' = IF wedged THEN tail
                    ELSE Append(tail, [by |-> state.session, n |-> accepted + 1])
    ELSE UNCHANGED <<accepted, tail>>

\* Mutated form: the timer waits for a first frame.
TouchLater == UNCHANGED idle

Touch == idle' = TRUE

\* The page has loaded: its navigation opens the trace.
Loaded(s) ==
    /\ starting[s].at = "goto" /\ chromium[s] = "open"
    /\ Enqueue /\ Touch /\ StartAt(s, "done")
    /\ UNCHANGED <<state, handle, chromium, slot, wedged, closers, stopping, gone, mixed>>

\* Mutated form: what failed is left to the idle timer.
FreeNothing(s) ==
    /\ closers' = closers \cup {[who |-> s, of |-> Nobody]}
    /\ UNCHANGED <<idle, chromium>>

\* "free the browser and clear the session so the wallet isn't wedged"
Free(s) == CloseBrowser(s)

SetupFails(s) ==
    /\ starting[s].at \in {"launch", "goto"} /\ Free(s) /\ StartAt(s, "fail")
    /\ UNCHANGED <<state, handle, accepted, tail, slot, wedged, stopping, gone, mixed>>

FailedStart(s) ==
    /\ starting[s].at = "fail" /\ Returns(s) /\ StartAt(s, "done")
    /\ state' = Nobody
    /\ UNCHANGED <<chromium, accepted, tail, slot, wedged, idle, stopping, gone, mixed>>

-----------------------------------------------------------------------------
(* The page, the view and the queue.                                       *)

\* __aemRecord, of a page that is open
Act(s) ==
    /\ chromium[s] = "open" /\ Enqueue
    /\ UNCHANGED <<state, handle, chromium, slot, wedged, idle, closers, starting,
                   stopping, gone, mixed>>

\* A callback of enqueue begins, and reads the index of its action.
TakeUp ==
    /\ tail # <<>> /\ slot = MaxActions
    /\ IF ~IsBusy THEN tail' = Tail(tail) /\ UNCHANGED slot
       ELSE IF Len(state.trace) >= MaxActions THEN tail' = Tail(tail) /\ UNCHANGED slot
       ELSE slot' = Len(state.trace) /\ UNCHANGED tail
    /\ UNCHANGED <<state, handle, chromium, accepted, wedged, idle, closers,
                   starting, stopping, gone, mixed>>

\* After its screenshot it writes to the state there is by then.  If there is none it
\* throws, and whatever is chained to it, now and later, is skipped.
Push ==
    /\ slot < MaxActions /\ slot' = MaxActions
    /\ IF state = Nobody
       THEN wedged' = TRUE /\ tail' = <<>> /\ UNCHANGED state
       ELSE /\ state' = [state EXCEPT !.trace =
                            Append(@, [by |-> tail[1].by, n |-> tail[1].n, idx |-> slot])]
            /\ tail' = Tail(tail) /\ UNCHANGED wedged
    /\ UNCHANGED <<handle, chromium, accepted, idle, closers, starting, stopping,
                   gone, mixed>>

\* getFrame, of a client that watches: the timer starts anew.
Frame ==
    /\ IsBusy /\ idle' = TRUE
    /\ UNCHANGED <<state, handle, chromium, accepted, tail, slot, wedged, closers,
                   starting, stopping, gone, mixed>>

\* A recording that its timer or its browser ends owes nothing to a stop.
CutShort == stopping' = [stopping EXCEPT !.owed = IF IsBusy THEN 0 ELSE @]

TimerFires ==
    /\ idle /\ CloseBrowser("idle")
    /\ state' = Stopped /\ CutShort
    /\ UNCHANGED <<handle, accepted, tail, slot, wedged, starting, gone, mixed>>

\* The browser is closed, or has crashed: context.on("close").
ContextCloses(s) ==
    /\ \/ chromium[s] = "closing" /\ UNCHANGED gone
       \/ chromium[s] = "open" /\ gone < MaxGone /\ gone' = gone + 1
    /\ state' = Stopped /\ idle' = FALSE /\ CutShort
    /\ closers' = closers \cup {[who |-> "event", of |-> handle]}
    /\ chromium' = [t \in Recordings |-> IF t = s THEN "closed"
                                       ELSE IF t = handle /\ chromium[t] = "open"
                                       THEN "closing" ELSE chromium[t]]
    /\ UNCHANGED <<handle, accepted, tail, slot, wedged, starting, mixed>>

Closed ==
    /\ Returns("idle") \/ Returns("event")
    /\ UNCHANGED <<state, chromium, accepted, tail, slot, wedged, idle, starting,
                   stopping, gone, mixed>>

-----------------------------------------------------------------------------
(* stop, and POST /api/record/stop.                                        *)

\* Mutated form: stop does not wait for the queue.
AwaitsNothing == NoAction

AwaitsTail == LastOfTail

StopCalled ==
    /\ stopping.at = "none"
    /\ stopping' = [NoStop EXCEPT !.at = "drain", !.last = AwaitsTail,
                                  !.owed = IF IsBusy THEN accepted ELSE 0]
    /\ UNCHANGED <<state, handle, chromium, accepted, tail, slot, wedged, idle,
                   closers, starting, gone, mixed>>

StopDrained ==
    /\ stopping.at = "drain" /\ Drained(stopping.last)
    /\ CloseBrowser("stop") /\ state' = Stopped
    /\ stopping' = [stopping EXCEPT !.at = "close", !.last = NoAction]
    /\ UNCHANGED <<handle, accepted, tail, slot, wedged, starting, gone, mixed>>

\* The snapshot, and createDemonstration unless it is empty.
TakeSnapshot ==
    /\ stopping.at = "close" /\ Returns("stop")
    /\ stopping' = IF state = Nobody THEN NoStop
                   ELSE IF state.trace = <<>> THEN NoStop
                   ELSE [stopping EXCEPT !.at = "save", !.of = state.session,
                                         !.kept = Len(state.trace)]
    /\ UNCHANGED <<state, chromium, accepted, tail, slot, wedged, idle, starting,
                   gone, mixed>>

\* markSaved, of the recording there is by then, or the INSERT has failed.
Saved ==
    /\ stopping.at = "save" /\ stopping' = NoStop
    /\ \/ UNCHANGED state
       \/ /\ state # Nobody
          /\ state' = [state EXCEPT !.status = "saved", !.saved = stopping.of]
    /\ UNCHANGED <<handle, chromium, accepted, tail, slot, wedged, idle, closers,
                   starting, gone, mixed>>

-----------------------------------------------------------------------------
StartGoesOn(s) == \/ TearDown(s) \/ BeginFresh(s) \/ LaunchBrowser(s) \/ Loaded(s)
                  \/ SetupFails(s) \/ FailedStart(s)
StopGoesOn == StopDrained \/ TakeSnapshot \/ Saved
QueueGoesOn == TakeUp \/ Push

RecNext ==
    \/ \E s \in Recordings : Start(s) \/ StartGoesOn(s) \/ Act(s) \/ ContextCloses(s)
    \/ QueueGoesOn \/ Frame \/ TimerFires \/ Closed
    \/ StopCalled \/ StopGoesOn

RecSpec == RecInit /\ [][RecNext]_recVars

\* The calls to Playwright, the disk and the database come back; nobody watches a
\* recording for ever, and then its timer lapses.
RecFairness ==
    /\ \A s \in Recordings : WF_recVars(StartGoesOn(s))
    /\ \A s \in Recordings : WF_recVars(chromium[s] = "closing" /\ ContextCloses(s))
    /\ WF_recVars(StopGoesOn) /\ WF_recVars(QueueGoesOn) /\ WF_recVars(Closed)
    /\ WF_recVars(TimerFires)

-----------------------------------------------------------------------------
(* Properties.                                                             *)

\* "Serializes screenshot+trace writes so indexes never race": the trace holds the
\* actions of its own recording in the order they were accepted, each at its index.
TraceInOrder ==
    state # Nobody /\ ~mixed =>
        /\ \A i \in DOMAIN state.trace :
              state.trace[i] = [by |-> state.session, n |-> i, idx |-> i - 1]
        /\ state.status = "saved" => state.saved = state.session

\* What was accepted when stop was called is in the snapshot it takes, and in what it
\* saves, unless the timer, the browser or its own start ended the recording before.
\* Two recordings are excepted by name: one that is mixed with what another left
\* behind, and one after a callback found no recording to write to.  That callback
\* rejects this.tail for good: what is chained to it is skipped, in every recording of
\* the session from then on, and the stop saves none of it.
StopKeepsAll ==
    /\ stopping.at = "save" /\ ~mixed => stopping.kept >= stopping.owed
    /\ stopping.at = "close" /\ state # Nobody /\ ~mixed /\ ~wedged =>
           Len(state.trace) >= stopping.owed

\* A recording is what its user did.
RecordingIntact == TraceInOrder /\ StopKeepsAll

AtRest ==
    /\ \A s \in Recordings : /\ chromium[s] \in {"none", "closed"}
                             /\ starting[s].at \in {"none", "done"}
    /\ stopping = NoStop

\* "so the wallet isn't wedged and nothing leaks": whether a start fails, or the user
\* stops, or leaves, every browser that was launched is closed and every call answered
\* again and again.
NothingLeaks == []<>(AtRest \/ mixed)
=============================================================================
