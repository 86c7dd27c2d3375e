---------------------------- MODULE TestbedProofs ----------------------------
(***************************************************************************)
(* Proofs about Testbed, for network profiles of every length: the network *)
(* is shaped only while the profile is applied, unless a command fails;    *)
(* the simulation is logged, and a measurement happens once.               *)
(***************************************************************************)
EXTENDS Testbed, TLAPS

\* A measurement starts in the invariant.
LEMMA InitInv == Init => IInv
<1> SUFFICES ASSUME Init PROVE IInv
  OBVIOUS
<1>1. TypeOK
  <2>1. exposed \in 0..Functions /\ item \in 0..ProfileLength /\ timers \in Nat
    BY ProfileAssumption DEF Init, Functions
  <2>2. step \in Steps /\ shaping = "none" /\ page = "connecting"
    BY DEF Init, Steps
  <2> QED BY <2>1, <2>2 DEF Init, TypeOK
<1>2. NetworkRestored /\ FirstWaitOnly /\ SessionOpen
  BY DEF Init, NetworkRestored, FirstWaitOnly, SessionOpen
<1> QED BY <1>1, <1>2 DEF IInv

\* Page and run.ts before the simulation.
LEMMA ChainInv ==
  ASSUME IInv,
         \/ ExposeFunction \/ SessionEstablished \/ SessionError \/ PlayRejects
         \/ BufferingEnd \/ Rebuffers \/ TimerFires \/ OnReceived
  PROVE  IInv'
<1> USE DEF IInv
<1>1. CASE ExposeFunction
  <2>1. TypeOK' BY <1>1 DEF ExposeFunction, TypeOK, Functions
  <2> QED BY <1>1, <2>1 DEF ExposeFunction, NetworkRestored, FirstWaitOnly, SessionOpen
<1>2. CASE SessionEstablished \/ SessionError \/ PlayRejects \/ Rebuffers
  <2>1. TypeOK'
    BY <1>2 DEF SessionEstablished, SessionError, PlayRejects, Rebuffers, TypeOK
  <2> QED BY <1>2, <2>1 DEF SessionEstablished, SessionError, PlayRejects, Rebuffers,
                            NetworkRestored, FirstWaitOnly, SessionOpen
<1>3. CASE BufferingEnd
  <2>1. CASE isRebuffering
    <3>1. /\ isRebuffering' = TRUE /\ page' = "playing"
          /\ UNCHANGED <<up, exposed, interrupted, timers, step, item, shaping, logging, media>>
      BY <1>3, <2>1 DEF BufferingEnd
    <3>2. TypeOK' BY <3>1 DEF TypeOK
    <3> QED BY <2>1, <3>1, <3>2 DEF NetworkRestored, FirstWaitOnly, SessionOpen
  <2>2. CASE ~ isRebuffering
    <3>1. /\ isRebuffering' = TRUE /\ page' = "playing" /\ step' \in {"waiting", "uncalled"}
          /\ timers' \in {timers, timers + 1}
          /\ UNCHANGED <<up, exposed, interrupted, item, shaping, logging, media>>
      BY <1>3, <2>2 DEF BufferingEnd
    <3>2. timers = 0 /\ step = "idle" BY <2>2 DEF FirstWaitOnly
    <3>3. TypeOK' BY <3>1, <3>2 DEF TypeOK, Steps
    <3>4. shaping' = "none" BY <3>1, <3>2 DEF NetworkRestored
    <3> QED BY <3>1, <3>2, <3>3, <3>4 DEF NetworkRestored, FirstWaitOnly, SessionOpen
  <2> QED BY <2>1, <2>2
<1>4. CASE TimerFires
  <2>1. TypeOK' BY <1>4 DEF TimerFires, TypeOK, Steps
  <2>2. NetworkRestored' BY <1>4 DEF TimerFires, NetworkRestored
  <2>3. FirstWaitOnly' BY <1>4 DEF TimerFires, FirstWaitOnly
  <2>4. SessionOpen' BY <1>4 DEF TimerFires, SessionOpen
  <2> QED BY <2>1, <2>2, <2>3, <2>4
<1>5. CASE OnReceived
  <2>1. TypeOK' BY <1>5 DEF OnReceived, TypeOK
  <2> QED BY <1>5, <2>1 DEF OnReceived, NetworkRestored, FirstWaitOnly, SessionOpen
<1> QED BY <1>1, <1>2, <1>3, <1>4, <1>5

\* The simulation, what follows it, and Ctrl-C.
LEMMA SimulationInv ==
  ASSUME IInv,
         \/ SetupSucceeds \/ SetupThrows \/ ConfigureItem \/ SimulationEnds \/ CleanThrows
         \/ MeasuresWithMedia \/ MeasuresWithoutMedia \/ SaveResults \/ ChownThrows
         \/ Sigint
  PROVE  IInv'
<1> USE DEF IInv
<1>1. CASE SetupSucceeds \/ SetupThrows
  <2>1. TypeOK' BY <1>1 DEF SetupSucceeds, SetupThrows, TypeOK, Steps
  <2> QED BY <1>1, <2>1 DEF SetupSucceeds, SetupThrows, NetworkRestored, FirstWaitOnly,
                            SessionOpen
<1>2. CASE ConfigureItem
  <2>1. TypeOK' BY <1>2, ProfileAssumption DEF ConfigureItem, TypeOK
  <2> QED BY <1>2, <2>1 DEF ConfigureItem, NetworkRestored, FirstWaitOnly, SessionOpen
<1>3. CASE SimulationEnds \/ CleanThrows
  <2>1. TypeOK' BY <1>3 DEF SimulationEnds, CleanThrows, TypeOK, Steps
  <2> QED BY <1>3, <2>1 DEF SimulationEnds, CleanThrows, NetworkRestored, FirstWaitOnly,
                            SessionOpen
<1>4. CASE MeasuresWithMedia
  <2>1. TypeOK' BY <1>4 DEF MeasuresWithMedia, TypeOK, Steps
  <2> QED BY <1>4, <2>1 DEF MeasuresWithMedia, NetworkRestored, FirstWaitOnly, SessionOpen
<1>5. CASE MeasuresWithoutMedia \/ ChownThrows
  <2>1. TypeOK' BY <1>5 DEF MeasuresWithoutMedia, ChownThrows, TypeOK, Steps
  <2> QED BY <1>5, <2>1 DEF MeasuresWithoutMedia, ChownThrows, NetworkRestored,
                            FirstWaitOnly, SessionOpen
<1>6. CASE SaveResults
  <2>1. TypeOK' BY <1>6 DEF SaveResults, TypeOK, Steps
  <2> QED BY <1>6, <2>1 DEF SaveResults, NetworkRestored, FirstWaitOnly, SessionOpen
<1>7. CASE Sigint
  <2>1. TypeOK' BY <1>7 DEF Sigint, TypeOK
  <2> QED BY <1>7, <2>1 DEF Sigint, NetworkRestored, FirstWaitOnly, SessionOpen
<1> QED BY <1>1, <1>2, <1>3, <1>4, <1>5, <1>6, <1>7

\* The invariant holds throughout.
THEOREM Invariance == Spec => []IInv
<1>1. ASSUME IInv, [Next]_vars PROVE IInv'
  <2>1. CASE UNCHANGED vars
    BY <1>1, <2>1 DEF vars, IInv, TypeOK, NetworkRestored, FirstWaitOnly, SessionOpen
  <2> QED BY <1>1, <2>1, ChainInv, SimulationInv DEF Next, Simulate
<1> QED BY <1>1, InitInv, PTL DEF Spec

\* Every variable keeps its type, the profile's item within the profile.
THEOREM TypeCorrect == Spec => []TypeOK
<1>1. IInv => TypeOK BY DEF IInv
<1> QED BY <1>1, Invariance, PTL

\* Outside the simulation the rules of the packet filter are gone, unless a command of
\* setup() or clean() failed: simulateMacos.ts removes them after its loop, also when an
\* item of the profile could not be configured.
THEOREM NetworkLeftAlone == Spec => []NetworkRestored
<1>1. IInv => NetworkRestored BY DEF IInv
<1> QED BY <1>1, Invariance, PTL

\* The page logs its session whenever the network is shaped for it.
THEOREM SimulationsLogged == Spec => []SimulationLogged
<1>1. IInv => SimulationLogged BY DEF IInv, SessionOpen, SimulationLogged
<1> QED BY <1>1, Invariance, PTL

\* The page's timer is set at most once.
THEOREM OneMeasurement == Spec => []MeasuredOnce
<1>1. IInv => MeasuredOnce BY DEF IInv, FirstWaitOnly, MeasuredOnce
<1> QED BY <1>1, Invariance, PTL
=============================================================================
