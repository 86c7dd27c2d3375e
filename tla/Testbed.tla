------------------------------ MODULE Testbed ------------------------------
(***************************************************************************)
(* A measurement: run.ts drives a browser that shows the test page         *)
(* (client/src/pages/Test.tsx) and shapes the network by a profile         *)
(* (testbed/src/simulateMacos.ts).  The two talk through functions that    *)
(* run.ts exposes to the page one after the other, after the page has been *)
(* loaded, and through an event that it dispatches in the page:            *)
(*                                                                         *)
(*   page: first bufferingEnd -> onPlaying, 3 s timer -> log session,      *)
(*         onReady -> run.ts: simulation -> "simulationDone" ->            *)
(*   page: pause, metrics -> onSimulationDone -> run.ts: save, close       *)
(*                                                                         *)
(* A call of a function that is not exposed yet throws in the page, and    *)
(* nothing repeats it.  The player is as in Player: it reports the end of  *)
(* every wait for frames, the first one with isRebuffering = false.        *)
(*                                                                         *)
(* puppeteer is not in the repository.  launch(), called without options,  *)
(* installs a listener for SIGINT that exits the process; it is older than *)
(* the listeners of run.ts and simulateMacos.ts, and these never run.      *)
(***************************************************************************)
EXTENDS Integers

CONSTANT ProfileLength   \* items of the network profile

ASSUME ProfileAssumption == ProfileLength \in Nat

VARIABLES
  up,            \* run.ts is running
  exposed,       \* functions exposed so far, in the order of Functions
  page,          \* "connecting", "buffering", "playing", "paused" or "failed"
  isRebuffering, \* Player.isRebuffering: the first wait is over
  interrupted,   \* history: the player ran out of frames while the timer was set
  timers,        \* 3 s timers set
  step,          \* where the chain of calls stands
  item,          \* items of the profile that have been configured
  shaping,       \* the packet filter's rules: "none", "partly" or "on"
  logging,       \* Logger's session is open
  media          \* the session has logged a received object

vars == <<up, exposed, page, isRebuffering, interrupted, timers, step, item,
          shaping, logging, media>>

\* "onInitialBufferingStart", "onPlaying", "onReady", "onSimulationDone"
Functions == 4
OnPlaying == exposed >= 2
OnReady == exposed >= 3
OnSimulationDone == exposed >= 4

\* "idle", then "waiting" for the timer, "ready" (onReady has been called),
\* "running", "simulated" (the event is on its way), "measured" and "saved".
\* The chain breaks off if the next function is not exposed ("uncalled"), or if
\* setup(), clean(), getSessionMetrics() or chownSync() throws ("unset", "unclean",
\* "unmeasured", "unowned").
Steps == {"idle", "waiting", "ready", "running", "simulated", "measured", "saved",
          "uncalled", "unset", "unclean", "unmeasured", "unowned"}

TypeOK ==
  /\ up \in BOOLEAN /\ isRebuffering \in BOOLEAN /\ interrupted \in BOOLEAN
  /\ logging \in BOOLEAN /\ media \in BOOLEAN
  /\ exposed \in 0..Functions
  /\ page \in {"connecting", "buffering", "playing", "paused", "failed"}
  /\ timers \in Nat
  /\ step \in Steps
  /\ item \in 0..ProfileLength
  /\ shaping \in {"none", "partly", "on"}

Init ==
  /\ up = TRUE /\ exposed = 0
  /\ page = "connecting" /\ isRebuffering = FALSE /\ interrupted = FALSE
  /\ timers = 0 /\ step = "idle" /\ item = 0
  /\ shaping = "none"
  /\ logging = FALSE /\ media = FALSE

-----------------------------------------------------------------------------
\* run.ts while the page loads.

ExposeFunction ==
  /\ up /\ exposed < Functions
  /\ exposed' = exposed + 1
  /\ UNCHANGED <<up, page, isRebuffering, interrupted, timers, step, item, shaping,
                 logging, media>>

\* The page: setup(), and the player's events.

\* play() reports bufferingStart; if onInitialBufferingStart is missing, only
\* the listener fails.
SessionEstablished ==
  /\ up /\ page = "connecting"
  /\ page' = "buffering"
  /\ UNCHANGED <<up, exposed, isRebuffering, interrupted, timers, step, item,
                 shaping, logging, media>>

SessionError ==
  /\ up /\ page = "connecting"
  /\ page' = "failed"
  /\ UNCHANGED <<up, exposed, isRebuffering, interrupted, timers, step, item,
                 shaping, logging, media>>

\* play() is not awaited, and rejects if a subscription is refused: the player goes
\* on BUFFERING, and no frame will come.
PlayRejects ==
  /\ up /\ page = "buffering" /\ ~isRebuffering
  /\ page' = "failed"
  /\ UNCHANGED <<up, exposed, isRebuffering, interrupted, timers, step, item,
                 shaping, logging, media>>

\* A mistake: every bufferingEnd sets the timer.
BufferingEndAlways ==
  /\ up /\ page = "buffering"
  /\ page' = "playing" /\ isRebuffering' = TRUE
  /\ timers' = timers + 1
  /\ step' = "waiting"
  /\ UNCHANGED <<up, exposed, interrupted, item, shaping, logging, media>>

BufferingEnd ==
  /\ up /\ page = "buffering"
  /\ page' = "playing" /\ isRebuffering' = TRUE
  /\ IF isRebuffering
     THEN UNCHANGED <<timers, step>>
     ELSE IF OnPlaying THEN timers' = timers + 1 /\ step' = "waiting"
                       ELSE step' = "uncalled" /\ UNCHANGED timers
  /\ UNCHANGED <<up, exposed, interrupted, item, shaping, logging, media>>

Rebuffers ==
  /\ up /\ page = "playing"
  /\ page' = "buffering"
  /\ interrupted' = (interrupted \/ step = "waiting")
  /\ UNCHANGED <<up, exposed, isRebuffering, timers, step, item, shaping, logging,
                 media>>

\* The timer's callback.  A mistake: the log session is left out.
TimerFiresUnlogged ==
  /\ up /\ step = "waiting"
  /\ step' = IF OnReady THEN "ready" ELSE "uncalled"
  /\ UNCHANGED <<up, exposed, page, isRebuffering, interrupted, timers, item, shaping,
                 logging, media>>

TimerFires ==
  /\ up /\ step = "waiting"
  /\ logging' = TRUE
  /\ step' = IF OnReady THEN "ready" ELSE "uncalled"
  /\ UNCHANGED <<up, exposed, page, isRebuffering, interrupted, timers, item, shaping,
                 media>>

OnReceived ==
  /\ up /\ logging /\ ~media
  /\ media' = TRUE
  /\ UNCHANGED <<up, exposed, page, isRebuffering, interrupted, timers, step, item,
                 shaping, logging>>

-----------------------------------------------------------------------------
\* onReady in run.ts: simulateNetworkPattern.  setup() comes before the try.

SetupSucceeds ==
  /\ up /\ step = "ready"
  /\ shaping' = "on" /\ step' = "running"
  /\ UNCHANGED <<up, exposed, page, isRebuffering, interrupted, timers, item, logging,
                 media>>

SetupThrows ==
  /\ up /\ step = "ready"
  /\ shaping' = "partly" /\ step' = "unset"
  /\ UNCHANGED <<up, exposed, page, isRebuffering, interrupted, timers, item, logging,
                 media>>

\* A mistake: one item too many.
ConfigureItemMore ==
  /\ up /\ step = "running" /\ item <= ProfileLength
  /\ item' = item + 1
  /\ UNCHANGED <<up, exposed, page, isRebuffering, interrupted, timers, step, shaping,
                 logging, media>>

ConfigureItem ==
  /\ up /\ step = "running" /\ item < ProfileLength
  /\ item' = item + 1
  /\ UNCHANGED <<up, exposed, page, isRebuffering, interrupted, timers, step, shaping,
                 logging, media>>

\* After the last item, or when configuring one has thrown, which is caught.
\* Mistakes: no clean() after an error; no event after an error.
SimulationEndsUnclean ==
  /\ up /\ step = "running"
  /\ shaping' = IF item = ProfileLength THEN "none" ELSE "on"
  /\ step' = "simulated"
  /\ UNCHANGED <<up, exposed, page, isRebuffering, interrupted, timers, item, logging,
                 media>>
SimulationEndsSilently ==
  /\ up /\ step = "running"
  /\ shaping' = "none"
  /\ step' = IF item = ProfileLength THEN "simulated" ELSE "idle"
  /\ UNCHANGED <<up, exposed, page, isRebuffering, interrupted, timers, item, logging,
                 media>>

SimulationEnds ==
  /\ up /\ step = "running"
  /\ shaping' = "none"
  /\ step' = "simulated"
  /\ UNCHANGED <<up, exposed, page, isRebuffering, interrupted, timers, item, logging,
                 media>>

\* clean() runs three commands, and none of them is caught.
CleanThrows ==
  /\ up /\ step = "running"
  /\ shaping' \in {"on", "partly"}
  /\ step' = "unclean"
  /\ UNCHANGED <<up, exposed, page, isRebuffering, interrupted, timers, item, logging,
                 media>>

\* The page: onSimulationDone.  getSessionMetrics() throws if nothing has been
\* received in the session, the first time, before pause().
MeasuresWithMedia ==
  /\ up /\ step = "simulated" /\ media
  /\ logging' = FALSE /\ page' = "paused"
  /\ step' = IF OnSimulationDone THEN "measured" ELSE "uncalled"
  /\ UNCHANGED <<up, exposed, isRebuffering, interrupted, timers, item, shaping, media>>

MeasuresWithoutMedia ==
  /\ up /\ step = "simulated" /\ ~media
  /\ step' = "unmeasured"
  /\ UNCHANGED <<up, exposed, page, isRebuffering, interrupted, timers, item, shaping,
                 logging, media>>

\* onSimulationDone in run.ts; chownSync throws if SUDO_UID is not set, and
\* the browser stays open.
SaveResults ==
  /\ up /\ step = "measured"
  /\ step' = "saved" /\ up' = FALSE
  /\ UNCHANGED <<exposed, page, isRebuffering, interrupted, timers, item, shaping,
                 logging, media>>

ChownThrows ==
  /\ up /\ step = "measured"
  /\ step' = "unowned"
  /\ UNCHANGED <<up, exposed, page, isRebuffering, interrupted, timers, item, shaping,
                 logging, media>>

\* Ctrl-C: puppeteer's listener exits.
Sigint ==
  /\ up
  /\ up' = FALSE
  /\ UNCHANGED <<exposed, page, isRebuffering, interrupted, timers, step, item,
                 shaping, logging, media>>

\* From the first item of the profile to the metrics.
Simulate ==
  \/ ConfigureItem \/ SimulationEnds \/ CleanThrows
  \/ MeasuresWithMedia \/ MeasuresWithoutMedia

Next ==
  \/ ExposeFunction
  \/ SessionEstablished \/ SessionError \/ PlayRejects
  \/ BufferingEnd \/ Rebuffers
  \/ TimerFires \/ OnReceived
  \/ SetupSucceeds \/ SetupThrows
  \/ Simulate
  \/ SaveResults \/ ChownThrows
  \/ Sigint

Spec == Init /\ [][Next]_vars

\* The profile's pauses end, and the event reaches the page.
FairSpec == Spec /\ WF_vars(Simulate)

-----------------------------------------------------------------------------
\* Properties.

\* The machine's network is shaped only while the profile is applied, also when an
\* item of it could not be configured.  Two things leave rules behind: a command of
\* setup() or clean() that fails, and Ctrl-C while the profile is applied, which ends
\* the process at step "running".
NetworkRestored == shaping # "none" => step \in {"running", "unset", "unclean"}

\* What the network does to the player is logged: while it is shaped, the log
\* session is open.
SimulationLogged == step = "running" => logging

\* Waits for frames during the measurement do not start it again.
MeasuredOnce == timers <= 1

\* A simulation that has begun is measured, also when an item of its profile could not
\* be configured.  What can still come between is Ctrl-C, a clean() that throws, a page
\* that has received nothing, and a run.ts that has not yet exposed onSimulationDone:
\* nothing repeats the step, and the test hangs.
SimulationMeasured ==
  step = "running" ~>
    (~up \/ step \in {"measured", "unclean", "unmeasured", "uncalled"})

\* "wait 3 second of uninterrupted playback" (Test.tsx:32), "Waiting for 3
\* seconds of uninterrupted playback" (run.ts:34): the player did not run out of frames
\* between the first bufferingEnd and the simulation.
UninterruptedPlayback == step = "ready" => ~interrupted
-----------------------------------------------------------------------------
\* The inductive invariant behind the safety properties.

\* Only the end of the first wait sets the timer.
FirstWaitOnly ==
  IF isRebuffering THEN timers <= 1 ELSE timers = 0 /\ step = "idle"

\* The log session is opened before onReady, and closed after the simulation.
SessionOpen == step \in {"ready", "running", "simulated"} => logging

IInv == TypeOK /\ NetworkRestored /\ FirstWaitOnly /\ SessionOpen
=============================================================================
