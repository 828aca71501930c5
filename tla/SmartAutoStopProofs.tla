------------------------ MODULE SmartAutoStopProofs -------------------------
(***************************************************************************)
(* Proofs about SmartAutoStop, for every width of the addresses, set of    *)
(* rules, window, limit and number of events.                              *)
(***************************************************************************)
EXTENDS SmartAutoStop, TLAPS

(* The inductive invariant. *)

Resuming == {"setResumed", "options", "smartResume"}

\* Unless they overlapped, the check and the restart take turns.
TakeTurns == ~overlapped => pc["check"] = "idle" \/ pc["restart"] = "idle"

\* Who is about to resume the VPN has lowered isSmartStopped first.
ResumingIsUnflagged ==
  ~overlapped => \A a \in Actors : pc[a] \in Resuming => ~isSmartStopped

\* A smart stop that is flagged has been served or is on its way.
FlaggedIsDown ==
  isSmartStopped /\ ~userActed /\ ~overlapped =>
    \/ ~up /\ resuming = 0
    \/ pc["check"] \in {"setStopped", "smartStop"}

\* The VPN is up, or a smart stop or the user has stopped it.
Cause == up \/ stopped \/ userActed

\* What leads to a resume sooner or later.
MayResume ==
  \/ shown \/ isSmartStopped \/ seen.isSmartStopped \/ resuming > 0
  \/ \E a \in Actors : pc[a] \in Resuming \union {"resumed"}

ResumeHasCause == MayResume => Cause

\* Where the VPN is smart-stopped.
Looking == pc["check"] \in {"addresses", "decide"}

\* What a check has read is current as far as the application has been told, but
\* for an address that a due check will read again.
ReadingIsCurrent ==
  smartAutoStop /\ waiting = 0 /\ Looking =>
    /\ seen.networks = networks /\ seen.isSmartStopped = isSmartStopped
    /\ pc["check"] = "decide" => pending \/ seen.address = known

\* A VPN that is smart-stopped is so by the rules, or a check will tell.
StoppedByRules ==
  smartAutoStop /\ isSmartStopped /\ networks # {} /\ known # NoAddress =>
    pending \/ waiting > 0 \/ Looking \/ MatchAny(known, networks)

Placed == ReadingIsCurrent /\ StoppedByRules

-----------------------------------------------------------------------------
(* The quick response. *)

\* The window began with the first of the closes it counts.
WindowBegins ==
  IF disconnectCount = 0 THEN Passed ELSE closes[disconnectCount] = windowAge

\* As many closes before those it counts, one is older than a window.
EarlierIsOlder == closes[disconnectCount + MaxDisconnects] > Window

LaterIsYounger == \A k, l \in LastCloses : k <= l => closes[k] <= closes[l]

QuickInv == QuickTypeOK /\ WindowBegins /\ EarlierIsOlder /\ LaterIsYounger

\* What the closes and the window become as time passes and connections close.
LEMMA OlderAges ==
  /\ \A age \in 0 .. Past : Older(age) \in 0 .. Past /\ (age > Window => Older(age) > Window)
  /\ \A age, other \in 0 .. Past : age <= other => Older(age) <= Older(other)
BY QuickAssumption DEF Older, Past

LEMMA TickQuick ==
  ASSUME QuickInv, Tick
  PROVE  QuickInv'
<1> USE QuickAssumption
<1>1. /\ windowAge \in 0 .. Past /\ disconnectCount \in 0 .. MaxDisconnects
      /\ \A k \in LastCloses : closes[k] \in 0 .. Past
  BY DEF QuickInv, QuickTypeOK
<1>2. /\ windowAge' = Older(windowAge) /\ disconnectCount' = disconnectCount
      /\ \A k \in LastCloses : closes'[k] = Older(closes[k])
  BY DEF Tick
<1>3. QuickTypeOK'
  <2>1. windowAge' \in 0 .. Past /\ closes' \in [LastCloses -> 0 .. Past]
    BY <1>1, OlderAges DEF Tick
  <2> QED
    BY <1>2, <2>1 DEF QuickInv, QuickTypeOK, Tick
<1>4. disconnectCount > 0 => disconnectCount \in LastCloses
  BY <1>1 DEF LastCloses
<1>5. disconnectCount + MaxDisconnects \in LastCloses
  BY <1>1 DEF LastCloses
<1>6. WindowBegins'
  <2>1. CASE disconnectCount = 0
    BY <1>1, <1>2, <2>1, OlderAges DEF QuickInv, WindowBegins, Passed
  <2>2. CASE disconnectCount # 0
    BY <1>1, <1>2, <1>4, <2>2 DEF QuickInv, WindowBegins
  <2> QED
    BY <2>1, <2>2
<1>7. EarlierIsOlder'
  BY <1>1, <1>2, <1>5, OlderAges DEF QuickInv, EarlierIsOlder
<1>8. LaterIsYounger'
  BY <1>1, <1>2, OlderAges DEF QuickInv, LaterIsYounger
<1> QED
  BY <1>3, <1>6, <1>7, <1>8 DEF QuickInv

LEMMA CloseQuick ==
  ASSUME QuickInv, CloseConnections, UNCHANGED quickResponseEnabled,
         lastNetworkType' \in Types \union {NoType}
  PROVE  QuickInv'
<1> USE QuickAssumption
<1>1. /\ windowAge \in 0 .. Past /\ disconnectCount \in 0 .. MaxDisconnects
      /\ closes \in [LastCloses -> 0 .. Past] /\ quickResponseEnabled \in BOOLEAN
  BY DEF QuickInv, QuickTypeOK
<1>2. CASE CountInWindow >= MaxDisconnects
  <2>1. ~Passed /\ UNCHANGED <<windowAge, disconnectCount, closes>>
    BY <1>1, <1>2 DEF CloseConnections, CountInWindow
  <2> QED
    BY <2>1 DEF QuickInv, QuickTypeOK, WindowBegins, EarlierIsOlder, LaterIsYounger, Passed
<1>3. CASE CountInWindow < MaxDisconnects
  <2>1. Close /\ disconnectCount' = CountInWindow + 1
    BY <1>1, <1>3 DEF CloseConnections, CountInWindow
  <2>2. closes' \in [LastCloses -> 0 .. Past]
    BY <1>1, <2>1 DEF Close, LastCloses, Past
  <2>3. \A k \in LastCloses : closes'[k] = IF k = 1 THEN 0 ELSE closes[k - 1]
    BY <2>1 DEF Close
  <2>4. QuickTypeOK'
    <3>1. windowAge' \in 0 .. Past /\ disconnectCount' \in 0 .. MaxDisconnects
      BY <1>1, <1>3, <2>1 DEF CloseConnections, CountInWindow, Past
    <3> QED
      BY <1>1, <2>2, <3>1 DEF QuickTypeOK
  <2>5. LaterIsYounger'
    <3> SUFFICES ASSUME NEW k \in LastCloses, NEW l \in LastCloses, k <= l
                 PROVE  closes'[k] <= closes'[l]
      BY DEF LaterIsYounger
    <3>1. CASE k = 1
      BY <2>2, <2>3, <3>1 DEF Past
    <3>2. CASE k # 1
      <4>1. k - 1 \in LastCloses /\ l - 1 \in LastCloses /\ l # 1 /\ k - 1 <= l - 1
        BY <3>2 DEF LastCloses
      <4> QED
        BY <2>3, <3>2, <4>1 DEF QuickInv, LaterIsYounger
    <3> QED
      BY <3>1, <3>2
  <2>6. CASE Passed
    <3>1. windowAge' = 0 /\ disconnectCount' = 1
      BY <2>1, <2>6 DEF CloseConnections, CountInWindow
    <3>2. closes[MaxDisconnects] > Window
      <4>1. CASE disconnectCount = 0
        BY <1>1, <4>1 DEF QuickInv, EarlierIsOlder
      <4>2. CASE disconnectCount # 0
        <5>1. disconnectCount \in LastCloses /\ MaxDisconnects \in LastCloses
          BY <1>1, <4>2 DEF LastCloses
        <5>2. closes[disconnectCount] > Window
          BY <2>6, <4>2 DEF QuickInv, WindowBegins, Passed
        <5>3. closes[disconnectCount] <= closes[MaxDisconnects]
          BY <1>1, <5>1 DEF QuickInv, LaterIsYounger
        <5> QED
          BY <1>1, <5>1, <5>2, <5>3 DEF Past
      <4> QED
        BY <4>1, <4>2
    <3>3. 1 \in LastCloses /\ 1 + MaxDisconnects \in LastCloses
      BY DEF LastCloses
    <3>4. closes'[1] = 0 /\ closes'[1 + MaxDisconnects] > Window
      BY <2>3, <3>2, <3>3
    <3> QED
      BY <2>4, <2>5, <3>1, <3>4 DEF QuickInv, WindowBegins, EarlierIsOlder
  <2>7. CASE ~Passed
    <3>1. windowAge' = windowAge /\ disconnectCount' = disconnectCount + 1
      BY <2>1, <2>7 DEF CloseConnections, CountInWindow
    <3>2. disconnectCount \in 1 .. MaxDisconnects - 1
      BY <1>1, <1>3, <2>7 DEF QuickInv, WindowBegins, CountInWindow
    <3>3. /\ disconnectCount + 1 \in LastCloses
          /\ disconnectCount + 1 + MaxDisconnects \in LastCloses
      BY <3>2 DEF LastCloses
    <3>4. /\ closes'[disconnectCount + 1] = closes[disconnectCount]
          /\ closes'[disconnectCount + 1 + MaxDisconnects]
               = closes[disconnectCount + MaxDisconnects]
      BY <2>3, <3>2, <3>3
    <3>5. disconnectCount + 1 # 0
      BY <3>2
    <3> QED
      BY <2>4, <2>5, <3>1, <3>2, <3>4, <3>5 DEF QuickInv, WindowBegins, EarlierIsOlder
  <2> QED
    BY <2>6, <2>7
<1> QED
  BY <1>1, <1>2, <1>3 DEF CountInWindow

LEMMA ChangeQuick ==
  ASSUME QuickInv, NEW type \in Types, NEW running, HandleNetworkChange(type, running)
  PROVE  QuickInv'
<1>1. CASE Notifies(type) /\ quickResponseEnabled /\ running
  BY <1>1, CloseQuick DEF HandleNetworkChange
<1>2. CASE ~(Notifies(type) /\ quickResponseEnabled /\ running)
  BY <1>2 DEF HandleNetworkChange, QuickInv, QuickTypeOK, WindowBegins, EarlierIsOlder,
     LaterIsYounger, Passed
<1> QED
  BY <1>1, <1>2

LEMMA InitQuick == QuickInit => QuickInv
BY QuickAssumption DEF QuickInit, QuickInv, QuickTypeOK, WindowBegins, EarlierIsOlder,
   LaterIsYounger, Passed, Past, LastCloses

\* A step changes what the quick response remembers in one of three ways.
LEMMA QuickSteps ==
  ASSUME [Next]_vars
  PROVE  \/ UNCHANGED quickVars
         \/ Tick
         \/ \E type \in Types : HandleNetworkChange(type, up)
         \/ /\ quickResponseEnabled' \in BOOLEAN
            /\ UNCHANGED <<lastNetworkType, windowAge, disconnectCount, closes>>
<1>1. ASSUME NEW a \in Actors,
             Flagged(a) \/ OptionsCome(a) \/ SmartStop(a) \/ SmartResume(a) \/ Shows(a)
      PROVE  UNCHANGED quickVars
  BY <1>1 DEF Flagged, OptionsCome, SmartStop, SmartResume, Shows
<1>2. CASE TimerFires \/ BeginCheck \/ GetAddresses \/ Decide \/ UserToggles \/ Resume
  BY <1>2 DEF TimerFires, BeginCheck, GetAddresses, Decide, UserToggles, Resume
<1> QED
  BY <1>1, <1>2 DEF Next, vars, ChangeNetwork, SettingsChanged, SetQuickResponse, TimePasses

LEMMA StepQuick == QuickInv /\ [Next]_vars => QuickInv'
<1> SUFFICES ASSUME QuickInv, [Next]_vars PROVE QuickInv'
  OBVIOUS
<1>1. CASE UNCHANGED quickVars
  BY <1>1 DEF quickVars, QuickInv, QuickTypeOK, WindowBegins, EarlierIsOlder, LaterIsYounger,
     Passed
<1>2. CASE /\ quickResponseEnabled' \in BOOLEAN
           /\ UNCHANGED <<lastNetworkType, windowAge, disconnectCount, closes>>
  BY <1>2 DEF QuickInv, QuickTypeOK, WindowBegins, EarlierIsOlder, LaterIsYounger, Passed
<1> QED
  BY <1>1, <1>2, QuickSteps, TickQuick, ChangeQuick

-----------------------------------------------------------------------------
(* Types. *)

\* The parts of TypeOK that are disturbed together.
CallsTyped == pc \in [Actors -> Steps] /\ channel \in Seq(Actors)

FlagsTyped ==
  /\ smartAutoStop \in BOOLEAN /\ isSmartStopped \in BOOLEAN
  /\ shown \in BOOLEAN /\ up \in BOOLEAN /\ pending \in BOOLEAN
  /\ userActed \in BOOLEAN /\ stopped \in BOOLEAN /\ overlapped \in BOOLEAN

DataTyped ==
  /\ networks \in RuleSets
  /\ address \in Addresses \union {NoAddress} /\ known \in Addresses \union {NoAddress}
  /\ waiting \in Nat /\ resuming \in Nat /\ events \in Nat
  /\ seen \in Readings

LEMMA TypeOKInParts == TypeOK <=> QuickTypeOK /\ CallsTyped /\ FlagsTyped /\ DataTyped
BY Zenon DEF TypeOK, CallsTyped, FlagsTyped, DataTyped

\* Moves of the actors keep the types of pc and channel.
LEMMA GotoTyped ==
  ASSUME pc \in [Actors -> Steps], NEW a \in Actors, NEW step \in Steps, Goto(a, step)
  PROVE pc' \in [Actors -> Steps]
BY DEF Goto

LEMMA CallTyped ==
  ASSUME CallsTyped, NEW a \in Actors, NEW step \in Steps, Call(a, step)
  PROVE CallsTyped'
<1>1. pc' \in [Actors -> Steps]
  BY GotoTyped DEF CallsTyped, Call
<1>2. channel' \in Seq(Actors)
  BY DEF CallsTyped, Call
<1> QED BY <1>1, <1>2 DEF CallsTyped

LEMMA ServeTyped ==
  ASSUME CallsTyped, NEW a \in Actors, NEW step, NEW answer \in Steps,
         Serve(a, step, answer)
  PROVE CallsTyped'
BY GotoTyped DEF CallsTyped, Serve

LEMMA ReturnTyped ==
  ASSUME CallsTyped, channel # <<>>, NEW a \in Actors, NEW step \in Steps,
         Return(a, step)
  PROVE CallsTyped'
<1>1. pc' \in [Actors -> Steps]
  BY GotoTyped DEF CallsTyped, Return
<1>2. channel' \in Seq(Actors)
  BY DEF CallsTyped, Return
<1> QED BY <1>1, <1>2 DEF CallsTyped

LEMMA CallAgainTyped ==
  ASSUME CallsTyped, channel # <<>>, NEW a \in Actors, NEW step \in Steps,
         CallAgain(a, step)
  PROVE CallsTyped'
<1>1. pc' \in [Actors -> Steps]
  BY GotoTyped DEF CallsTyped, CallAgain
<1>2. channel' \in Seq(Actors)
  <2>1. Tail(channel) \in Seq(Actors)
    BY DEF CallsTyped
  <2> QED BY <2>1 DEF CallAgain
<1> QED BY <1>1, <1>2 DEF CallsTyped

\* The types of the initial states.
LEMMA InitTypes == Init => TypeOK
<1> SUFFICES ASSUME Init PROVE TypeOK
  OBVIOUS
<1>1. QuickTypeOK
  BY InitQuick DEF Init, QuickInv
<1>2. CallsTyped
  BY DEF Init, CallsTyped, Steps
<1>3. FlagsTyped
  BY DEF Init, FlagsTyped
<1>4. DataTyped
  BY DEF Init, DataTyped, Nothing, Readings
<1> QED BY <1>1, <1>2, <1>3, <1>4, TypeOKInParts

\* Every step keeps the types.
LEMMA StepTypes == QuickInv /\ TypeOK /\ [Next]_vars => TypeOK'
<1> SUFFICES ASSUME QuickInv, TypeOK, [Next]_vars PROVE TypeOK'
  OBVIOUS
<1>0. CallsTyped /\ FlagsTyped /\ DataTyped
  BY TypeOKInParts
<1>q. QuickTypeOK'
  BY StepQuick DEF QuickInv
<1> SUFFICES CallsTyped' /\ FlagsTyped' /\ DataTyped'
  BY <1>q, Zenon DEF TypeOK, CallsTyped, FlagsTyped, DataTyped
<1>c. ASSUME UNCHANGED callVars PROVE CallsTyped'
  BY <1>0, <1>c DEF callVars, CallsTyped
<1>1. ASSUME NEW ip \in Addresses \union {NoAddress}, NEW type \in Types,
             ChangeNetwork(ip, type)
      PROVE CallsTyped' /\ FlagsTyped' /\ DataTyped'
  <2> USE <1>0, <1>1 DEF ChangeNetwork, Event
  <2>1. CallsTyped'
    BY <1>c
  <2>2. FlagsTyped'
    BY DEF FlagsTyped, settingVars, runVars
  <2>3. DataTyped'
    BY DEF DataTyped, settingVars
  <2> QED BY <2>1, <2>2, <2>3
<1>2. ASSUME NEW on \in BOOLEAN, NEW rules \in RuleSets, SettingsChanged(on, rules)
      PROVE CallsTyped' /\ FlagsTyped' /\ DataTyped'
  <2> USE <1>0, <1>2 DEF SettingsChanged, Event
  <2>1. CallsTyped'
    BY <1>c, CallTyped DEF Actors, Steps, Served
  <2>2. FlagsTyped'
    BY DEF FlagsTyped, runVars
  <2>3. DataTyped'
    BY DEF DataTyped
  <2> QED BY <2>1, <2>2, <2>3
<1>3. ASSUME NEW enabled \in BOOLEAN, SetQuickResponse(enabled)
      PROVE CallsTyped' /\ FlagsTyped' /\ DataTyped'
  BY <1>0, <1>3, <1>c DEF SetQuickResponse, Event, FlagsTyped, DataTyped,
    settingVars, runVars, checkVars
<1>4. ASSUME UserToggles PROVE CallsTyped' /\ FlagsTyped' /\ DataTyped'
  <2> USE <1>0, <1>4 DEF UserToggles, Event, settingVars, checkVars
  <2>1. CallsTyped'
    BY <1>c
  <2>2. shown' \in BOOLEAN /\ up' \in BOOLEAN
    BY Zenon DEF FlagsTyped
  <2>3. FlagsTyped'
    BY <2>2 DEF FlagsTyped
  <2>4. DataTyped'
    BY DEF DataTyped
  <2> QED BY <2>1, <2>3, <2>4
<1>5. ASSUME TimerFires PROVE CallsTyped' /\ FlagsTyped' /\ DataTyped'
  <2> USE <1>0, <1>5 DEF TimerFires, settingVars, runVars
  <2>1. CallsTyped'
    BY <1>c
  <2>2. FlagsTyped'
    BY DEF FlagsTyped
  <2>3. DataTyped'
    BY DEF DataTyped
  <2> QED BY <2>1, <2>2, <2>3
<1>6. ASSUME BeginCheck PROVE CallsTyped' /\ FlagsTyped' /\ DataTyped'
  <2> USE <1>0, <1>6 DEF BeginCheck
  <2>1. CallsTyped'
    BY <1>c, CallTyped DEF Actors, Steps, Unserved
  <2>2. FlagsTyped'
    BY DEF FlagsTyped, settingVars, runVars
  <2>3. seen' \in Readings
    <3>1. networks \in SUBSET Rules /\ isSmartStopped \in BOOLEAN
      BY SmartAssumption DEF DataTyped, FlagsTyped
    <3>2. CASE seen' = seen
      BY <3>2 DEF DataTyped
    <3>3. CASE seen' = [Nothing EXCEPT !.networks = networks,
                                       !.isSmartStopped = isSmartStopped]
      BY <3>1, <3>3 DEF Nothing, Readings
    <3> QED BY <3>2, <3>3
  <2>4. DataTyped'
    BY <2>3 DEF DataTyped, settingVars
  <2> QED BY <2>1, <2>2, <2>4
<1>7. ASSUME GetAddresses PROVE CallsTyped' /\ FlagsTyped' /\ DataTyped'
  <2> USE <1>0, <1>7 DEF GetAddresses
  <2>1. CallsTyped'
    BY ServeTyped DEF Actors, Steps, Served
  <2>2. FlagsTyped'
    BY DEF FlagsTyped, settingVars, runVars
  <2>3. DataTyped'
    BY DEF DataTyped, settingVars, Readings
  <2> QED BY <2>1, <2>2, <2>3
<1>8. ASSUME Decide PROVE CallsTyped' /\ FlagsTyped' /\ DataTyped'
  <2> USE <1>0, <1>8 DEF Decide
  <2>1. CallsTyped'
    BY ReturnTyped, CallAgainTyped DEF Answered, Actors, Steps, Served
  <2>2. isSmartStopped' \in BOOLEAN
    BY Zenon DEF FlagsTyped
  <2>3. FlagsTyped'
    BY <2>2 DEF FlagsTyped, settingVars, runVars
  <2>4. DataTyped'
    BY DEF DataTyped, settingVars, Nothing, Readings
  <2> QED BY <2>1, <2>3, <2>4
<1>9. ASSUME NEW a \in Actors, Flagged(a) \/ OptionsCome(a)
      PROVE CallsTyped' /\ FlagsTyped' /\ DataTyped'
  <2> USE <1>0, <1>9 DEF Flagged, OptionsCome
  <2>1. CallsTyped'
    BY CallTyped, ReturnTyped, CallAgainTyped DEF Answered, Steps, Unserved
  <2>2. FlagsTyped' /\ DataTyped'
    BY DEF FlagsTyped, DataTyped, settingVars, runVars
  <2> QED BY <2>1, <2>2
<1>10. ASSUME NEW a \in Actors, SmartStop(a)
       PROVE CallsTyped' /\ FlagsTyped' /\ DataTyped'
  <2> USE <1>0, <1>10 DEF SmartStop
  <2>1. CallsTyped'
    BY ServeTyped DEF Steps, Served
  <2>2. FlagsTyped'
    BY DEF FlagsTyped, settingVars
  <2>3. DataTyped'
    BY DEF DataTyped, settingVars
  <2> QED BY <2>1, <2>2, <2>3
<1>11. ASSUME NEW a \in Actors, SmartResume(a)
       PROVE CallsTyped' /\ FlagsTyped' /\ DataTyped'
  <2> USE <1>0, <1>11 DEF SmartResume
  <2>1. CallsTyped'
    BY ServeTyped DEF Steps, Served
  <2>2. FlagsTyped' /\ DataTyped'
    BY DEF FlagsTyped, DataTyped, settingVars, runVars
  <2> QED BY <2>1, <2>2
<1>12. ASSUME NEW a \in Actors, Shows(a)
       PROVE CallsTyped' /\ FlagsTyped' /\ DataTyped'
  <2> USE <1>0, <1>12 DEF Shows
  <2>1. CallsTyped'
    BY ReturnTyped DEF Answered, Steps
  <2>2. FlagsTyped' /\ DataTyped'
    BY DEF FlagsTyped, DataTyped, settingVars
  <2> QED BY <2>1, <2>2
<1>13. ASSUME Resume PROVE CallsTyped' /\ FlagsTyped' /\ DataTyped'
  <2> USE <1>0, <1>13 DEF Resume
  <2>1. CallsTyped'
    BY <1>c
  <2>2. FlagsTyped'
    BY DEF FlagsTyped, settingVars
  <2>3. DataTyped'
    BY DEF DataTyped, settingVars
  <2> QED BY <2>1, <2>2, <2>3
<1>14. ASSUME TimePasses PROVE CallsTyped' /\ FlagsTyped' /\ DataTyped'
  BY <1>0, <1>14, <1>c DEF TimePasses, FlagsTyped, DataTyped, settingVars,
    runVars, checkVars
<1>15. ASSUME UNCHANGED vars PROVE CallsTyped' /\ FlagsTyped' /\ DataTyped'
  BY <1>0, <1>15, <1>c DEF vars, settingVars, runVars, checkVars, FlagsTyped, DataTyped
<1> QED
  BY <1>1, <1>2, <1>3, <1>4, <1>5, <1>6, <1>7, <1>8, <1>9, <1>10, <1>11, <1>12, <1>13,
    <1>14, <1>15 DEF Next

-----------------------------------------------------------------------------
(* The check, the restart and the smart stop. *)

\* Only a Goto moves an actor; the others stay.
LEMMA GotoMoves ==
  ASSUME pc \in [Actors -> Steps], NEW a \in Actors, NEW step, Goto(a, step)
  PROVE pc'[a] = step /\ \A b \in Actors \ {a} : pc'[b] = pc[b]
BY DEF Goto

\* With TypeOK these are inductive.
Safe == TakeTurns /\ ResumingIsUnflagged /\ FlaggedIsDown /\ ResumeHasCause

watched == <<isSmartStopped, runVars, seen, pc, resuming, overlapped>>

LEMMA SafeUnchanged ==
  ASSUME Safe, UNCHANGED watched
  PROVE Safe'
BY DEF Safe, watched, runVars, TakeTurns, ResumingIsUnflagged, FlaggedIsDown,
  ResumeHasCause, MayResume, Cause

LEMMA InitSafe == Init => Safe
BY DEF Init, Safe, TakeTurns, ResumingIsUnflagged, FlaggedIsDown, ResumeHasCause,
  MayResume, Cause, Actors, Nothing, Resuming

\* Every step keeps them.
LEMMA StepSafe == TypeOK /\ Safe /\ [Next]_vars => Safe'
<1> SUFFICES ASSUME TypeOK, Safe, [Next]_vars PROVE Safe'
  OBVIOUS
<1>t. /\ pc \in [Actors -> Steps] /\ resuming \in Nat /\ seen \in Readings
      /\ isSmartStopped \in BOOLEAN /\ shown \in BOOLEAN /\ up \in BOOLEAN
      /\ userActed \in BOOLEAN /\ stopped \in BOOLEAN /\ overlapped \in BOOLEAN
  BY DEF TypeOK
<1>s. TakeTurns /\ ResumingIsUnflagged /\ FlaggedIsDown /\ ResumeHasCause
  BY DEF Safe
<1> SUFFICES TakeTurns' /\ ResumingIsUnflagged' /\ FlaggedIsDown' /\ ResumeHasCause'
  BY DEF Safe
<1> DEFINE Goal == TakeTurns' /\ ResumingIsUnflagged' /\ FlaggedIsDown' /\ ResumeHasCause'
<1>k. ASSUME UNCHANGED watched PROVE Goal
  BY <1>k, SafeUnchanged DEF Safe
<1> USE DEF TakeTurns, ResumingIsUnflagged, FlaggedIsDown, ResumeHasCause, MayResume,
            Cause, Resuming, Actors
<1>1. ASSUME NEW ip, NEW type, ChangeNetwork(ip, type) PROVE Goal
  BY <1>1, <1>k DEF ChangeNetwork, callVars, watched
<1>2. ASSUME NEW on, NEW rules, SettingsChanged(on, rules) PROVE Goal
  <2>1. CASE ~on /\ isSmartStopped
    BY <1>2, <1>t, <1>s, <2>1, GotoMoves DEF SettingsChanged, Call, runVars
  <2>2. CASE ~(~on /\ isSmartStopped)
    BY <1>2, <2>2, <1>k DEF SettingsChanged, callVars, watched
  <2> QED BY <2>1, <2>2
<1>3. ASSUME NEW enabled, SetQuickResponse(enabled) PROVE Goal
  BY <1>3, <1>k DEF SetQuickResponse, checkVars, callVars, watched
<1>4. ASSUME UserToggles PROVE Goal
  BY <1>4, <1>t, <1>s DEF UserToggles, checkVars, callVars
<1>5. ASSUME TimerFires PROVE Goal
  BY <1>5, <1>k DEF TimerFires, callVars, watched
<1>6. ASSUME BeginCheck PROVE Goal
  <2>1. CASE smartAutoStop /\ networks # {}
    BY <1>6, <1>t, <1>s, <2>1, GotoMoves DEF BeginCheck, Call, runVars, Nothing
  <2>2. CASE ~(smartAutoStop /\ networks # {})
    BY <1>6, <2>2, <1>k DEF BeginCheck, callVars, watched
  <2> QED BY <2>1, <2>2
<1>7. ASSUME GetAddresses PROVE Goal
  BY <1>7, <1>t, <1>s, GotoMoves DEF GetAddresses, Serve, runVars, Readings
<1>8. ASSUME Decide PROVE Goal
  BY <1>8, <1>t, <1>s, GotoMoves
    DEF Decide, Answered, Return, CallAgain, runVars, Nothing
<1>9. ASSUME NEW a \in Actors, Flagged(a) PROVE Goal
  BY <1>9, <1>t, <1>s, GotoMoves DEF Flagged, Answered, Return, CallAgain, runVars
<1>10. ASSUME NEW a \in Actors, OptionsCome(a) PROVE Goal
  BY <1>10, <1>t, <1>s, GotoMoves DEF OptionsCome, Call, runVars
<1>11. ASSUME NEW a \in Actors, SmartStop(a) PROVE Goal
  BY <1>11, <1>t, <1>s, GotoMoves DEF SmartStop, Serve
<1>12. ASSUME NEW a \in Actors, SmartResume(a) PROVE Goal
  BY <1>12, <1>t, <1>s, GotoMoves DEF SmartResume, Serve, runVars
<1>13. ASSUME NEW a \in Actors, Shows(a) PROVE Goal
  BY <1>13, <1>t, <1>s, GotoMoves DEF Shows, Answered, Return
<1>14. ASSUME Resume PROVE Goal
  BY <1>14, <1>t, <1>s DEF Resume, callVars
<1>15. ASSUME TimePasses PROVE Goal
  BY <1>15, <1>k DEF TimePasses, checkVars, callVars, watched
<1>16. ASSUME UNCHANGED vars PROVE Goal
  BY <1>16, <1>k DEF vars, checkVars, callVars, watched
<1> QED
  BY <1>1, <1>2, <1>3, <1>4, <1>5, <1>6, <1>7, <1>8, <1>9, <1>10, <1>11, <1>12, <1>13,
    <1>14, <1>15, <1>16 DEF Next

-----------------------------------------------------------------------------
(* The rules. *)

\* A mask keeps the leading bits and clears the others.
LEMMA MaskedBits ==
  ASSUME NEW ip \in Addresses, NEW prefix \in 0 .. Width
  PROVE  /\ Masked(ip, prefix) \in Addresses
         /\ \A i \in Bits : Masked(ip, prefix)[i] = IF i < Width - prefix THEN 0 ELSE ip[i]
<1> USE WidthAssumption
<1>1. \A i \in Bits : ip[i] \in {0, 1}
  BY DEF Addresses
<1>2. \A i \in Bits : ip[i] * Mask(prefix)[i] = IF i < Width - prefix THEN 0 ELSE ip[i]
  BY <1>1 DEF Mask, Bits
<1> QED
  BY <1>1, <1>2 DEF Masked, Addresses

\* Comparing masked words is comparing the leading bits (isIPInCIDR, parseCIDR).
LEMMA RuleIsCovers ==
  ASSUME NEW ip \in Addresses, NEW rule \in Rules
  PROVE  IsIPInCIDR(ip, rule)
           <=> \A i \in Width - rule.prefix .. Width - 1 : ip[i] = rule.address[i]
<1> USE WidthAssumption
<1>1. rule.address \in Addresses /\ rule.prefix \in 0 .. Width
  BY DEF Rules
<1> DEFINE p == rule.prefix
           Same == \A i \in Width - p .. Width - 1 : ip[i] = rule.address[i]
<1>2. CASE p = 0
  <2>1. Width - p .. Width - 1 = {}
    BY <1>2
  <2> QED
    BY <1>2, <2>1 DEF IsIPInCIDR
<1>3. CASE p # 0
  <2>1. ParseCIDR(rule).address = Masked(rule.address, p)
    BY DEF ParseCIDR, Rules
  <2>2. IsIPInCIDR(ip, rule) <=> Masked(ip, p) = Masked(rule.address, p)
    BY <1>3, <2>1 DEF IsIPInCIDR
  <2>3. \A i \in Bits : /\ Masked(ip, p)[i] = IF i < Width - p THEN 0 ELSE ip[i]
                       /\ Masked(rule.address, p)[i] = IF i < Width - p THEN 0 ELSE rule.address[i]
    BY <1>1, MaskedBits
  <2>4. ASSUME Masked(ip, p) = Masked(rule.address, p) PROVE Same
    <3> SUFFICES ASSUME NEW i \in Width - p .. Width - 1 PROVE ip[i] = rule.address[i]
      OBVIOUS
    <3>1. i \in Bits /\ ~(i < Width - p)
      BY <1>1 DEF Bits
    <3> QED
      BY <2>3, <2>4, <3>1
  <2>5. ASSUME Same PROVE Masked(ip, p) = Masked(rule.address, p)
    <3>1. ASSUME NEW i \in Bits PROVE Masked(ip, p)[i] = Masked(rule.address, p)[i]
      <4>1. CASE i < Width - p
        BY <2>3, <4>1
      <4>2. CASE ~(i < Width - p)
        <5>1. i \in Width - p .. Width - 1
          BY <1>1, <4>2 DEF Bits
        <5> QED
          BY <2>3, <2>5, <4>2, <5>1
      <4> QED
        BY <4>1, <4>2
    <3> QED
      BY <3>1 DEF Masked
  <2> QED
    BY <2>2, <2>4, <2>5
<1> QED
  BY <1>2, <1>3

\* The rules match an address exactly when they cover it: the masks of the code,
\* at prefix 0 and at the full width too, compare the leading bits and nothing
\* else, whatever host bits a rule was written with (matchAny).
THEOREM MatchIsCovers ==
  ASSUME NEW ip \in Addresses, NEW rules \in SUBSET Rules
  PROVE  MatchAny(ip, rules) <=> Covers(rules, ip)
BY RuleIsCovers DEF MatchAny, Covers

-----------------------------------------------------------------------------
(* Where the VPN is smart-stopped. *)

placing == <<settingVars, isSmartStopped, known, pending, waiting, seen, pc>>

LEMMA InitPlaced == Init => Placed
BY DEF Init, Placed, ReadingIsCurrent, StoppedByRules, Looking, Actors

\* Steps of the other actor and of the platform leave a check where it is.
LEMMA PlacedElsewhere ==
  ASSUME Placed, UNCHANGED <<settingVars, isSmartStopped, known, pending, waiting, seen>>,
         pc'["check"] = pc["check"] \/ (~Looking /\ ~Looking')
  PROVE  Placed'
BY DEF Placed, ReadingIsCurrent, StoppedByRules, Looking, settingVars, MatchAny, IsIPInCIDR,
   ParseCIDR, Masked, Mask

LEMMA StepPlaced == TypeOK /\ Placed /\ [Next]_vars => Placed'
<1> SUFFICES ASSUME TypeOK, Placed, [Next]_vars PROVE Placed'
  OBVIOUS
<1>t. pc \in [Actors -> Steps] /\ waiting \in Nat /\ seen \in Readings
  BY DEF TypeOK
<1>p. ReadingIsCurrent /\ StoppedByRules
  BY DEF Placed
<1>k. ASSUME UNCHANGED placing PROVE Placed'
  BY <1>k, PlacedElsewhere DEF placing
<1>1. ASSUME NEW ip, NEW type, ChangeNetwork(ip, type) PROVE Placed'
  BY <1>1, <1>p DEF ChangeNetwork, callVars, settingVars, Placed, ReadingIsCurrent,
     StoppedByRules, Looking
<1>2. ASSUME NEW on, NEW rules, SettingsChanged(on, rules) PROVE Placed'
  BY <1>2, <1>t DEF SettingsChanged, Placed, ReadingIsCurrent, StoppedByRules
<1>3. ASSUME NEW enabled, SetQuickResponse(enabled) PROVE Placed'
  BY <1>3, <1>k DEF SetQuickResponse, checkVars, callVars, placing
<1>4. CASE UserToggles \/ Resume \/ TimePasses \/ UNCHANGED vars
  BY <1>4, <1>k DEF UserToggles, Resume, TimePasses, vars, checkVars, callVars, placing
<1>5. CASE TimerFires
  BY <1>5, <1>t DEF TimerFires, settingVars, Placed, ReadingIsCurrent, StoppedByRules
<1>6. CASE BeginCheck
  <2>1. CASE smartAutoStop /\ networks # {}
    <3>1. pc'["check"] = "addresses"
      BY <1>6, <1>t, <2>1, GotoMoves DEF BeginCheck, Call, Actors
    <3>2. seen'.networks = networks /\ seen'.isSmartStopped = isSmartStopped
      BY <1>6, <2>1 DEF BeginCheck, Nothing
    <3> QED
      BY <1>6, <3>1, <3>2 DEF BeginCheck, settingVars, Placed, ReadingIsCurrent,
         StoppedByRules, Looking
  <2>2. CASE ~(smartAutoStop /\ networks # {})
    BY <1>6, <2>2 DEF BeginCheck, callVars, settingVars, Placed, ReadingIsCurrent,
       StoppedByRules, Looking
  <2> QED
    BY <2>1, <2>2
<1>7. CASE GetAddresses
  <2>1. pc["check"] = "addresses" /\ pc'["check"] = "decide"
    BY <1>7, <1>t, GotoMoves DEF GetAddresses, Serve, Actors
  <2>2. /\ seen'.networks = seen.networks /\ seen'.isSmartStopped = seen.isSmartStopped
        /\ seen'.address = known'
    BY <1>7, <1>t DEF GetAddresses, Readings
  <2> QED
    BY <1>7, <1>p, <2>1, <2>2 DEF GetAddresses, settingVars, Placed, ReadingIsCurrent,
       StoppedByRules, Looking
<1>8. CASE Decide
  <2>1. pc["check"] = "decide" /\ pc'["check"] \in {"setStopped", "setResumed", "idle"}
    BY <1>8, <1>t, GotoMoves DEF Decide, Answered, CallAgain, Return, Actors
  <2>2. ReadingIsCurrent'
    BY <2>1 DEF ReadingIsCurrent, Looking
  <2>3. StoppedByRules'
    <3> SUFFICES ASSUME smartAutoStop, isSmartStopped', networks # {}, known # NoAddress,
                        ~pending, ~(waiting > 0)
                 PROVE  MatchAny(known, networks)
      BY <1>8 DEF Decide, settingVars, StoppedByRules
    <3>1. /\ seen.networks = networks /\ seen.isSmartStopped = isSmartStopped
          /\ seen.address = known
      BY <1>t, <1>p, <2>1 DEF ReadingIsCurrent, Looking
    <3>2. ShouldStop <=> MatchAny(known, networks)
      BY <3>1 DEF ShouldStop
    <3> QED
      BY <1>8, <3>1, <3>2 DEF Decide
  <2> QED
    BY <2>2, <2>3 DEF Placed
<1>9. ASSUME NEW a \in Actors,
             Flagged(a) \/ OptionsCome(a) \/ SmartStop(a) \/ SmartResume(a) \/ Shows(a)
      PROVE  Placed'
  <2>1. pc'["check"] = pc["check"] \/ (~Looking /\ ~Looking')
    BY <1>9, <1>t, GotoMoves DEF Flagged, OptionsCome, SmartStop, SmartResume, Shows, Answered,
       Serve, Call, CallAgain, Return, Looking, Actors
  <2>2. UNCHANGED <<settingVars, isSmartStopped, known, pending, waiting, seen>>
    BY <1>9 DEF Flagged, OptionsCome, SmartStop, SmartResume, Shows
  <2> QED
    BY <2>1, <2>2, PlacedElsewhere
<1> QED
  BY <1>1, <1>2, <1>3, <1>4, <1>5, <1>6, <1>7, <1>8, <1>9 DEF Next

-----------------------------------------------------------------------------
(* The theorems. *)

\* Every step of every behaviour keeps the variables in their types.
THEOREM TypeCorrect == Spec => []TypeOK
<1>1. Init => QuickInv /\ TypeOK
  BY InitQuick, InitTypes DEF Init
<1>2. (QuickInv /\ TypeOK) /\ [Next]_vars => (QuickInv /\ TypeOK)'
  BY StepQuick, StepTypes
<1> QED BY <1>1, <1>2, PTL DEF Spec

LEMMA SpecSafe == Spec => [](QuickInv /\ TypeOK /\ Safe /\ Placed)
<1>1. Init => QuickInv /\ TypeOK /\ Safe /\ Placed
  BY InitQuick, InitTypes, InitSafe, InitPlaced DEF Init
<1>2. (QuickInv /\ TypeOK /\ Safe /\ Placed) /\ [Next]_vars
        => (QuickInv /\ TypeOK /\ Safe /\ Placed)'
  BY StepQuick, StepTypes, StepSafe, StepPlaced
<1> QED BY <1>1, <1>2, PTL DEF Spec

\* At rest, a VPN that is smart-stopped is down, whatever the networks, the
\* settings and the user did during the checks, but for the races the property
\* names (_checkCurrentNetwork, _stopVpn, _restartVpn, handleSmartStop,
\* handleSmartResume).
THEOREM SmartStopHolds == Spec => []StoppedIsDown
<1>1. TypeOK /\ Safe => StoppedIsDown
  BY DEF Safe, FlaggedIsDown, StoppedIsDown, AtRest, Actors
<1> QED BY <1>1, SpecSafe, PTL

\* At rest, and with the feature on, a VPN is smart-stopped only where the rules,
\* read bit by bit, cover the address as of the last report or reading: what a check reads before its awaits
\* may be stale when it decides, but then another check is due or waits
\* (_debouncedCheckCurrentNetwork, _checkCurrentNetwork, isIPInCIDR).
THEOREM StopsWhereCovered == Spec => []StoppedWhereCovered
<1>1. TypeOK /\ Placed => StoppedWhereCovered
  <2> SUFFICES ASSUME TypeOK, Placed, AtRest, smartAutoStop, isSmartStopped,
                      networks # {}, known # NoAddress
               PROVE  Covers(networks, known)
    BY DEF StoppedWhereCovered
  <2>1. MatchAny(known, networks)
    BY DEF Placed, StoppedByRules, AtRest, Looking, Actors
  <2>2. known \in Addresses /\ networks \in SUBSET Rules
    BY SmartAssumption DEF TypeOK
  <2> QED
    BY <2>1, <2>2, MatchIsCovers
<1> QED BY <1>1, SpecSafe, PTL

\* In the length of a window the connections are closed less than twice the
\* limit, wherever the window begins (handleNetworkChange).
THEOREM QuickIsBounded == Spec => []QuickBounded
<1>1. QuickInv => QuickBounded
  <2> SUFFICES ASSUME QuickInv PROVE closes[2 * MaxDisconnects] > Window
    BY DEF QuickBounded
  <2>1. /\ disconnectCount + MaxDisconnects \in LastCloses /\ 2 * MaxDisconnects \in LastCloses
        /\ disconnectCount + MaxDisconnects <= 2 * MaxDisconnects
    BY QuickAssumption DEF QuickInv, QuickTypeOK, LastCloses
  <2>2. closes[disconnectCount + MaxDisconnects] <= closes[2 * MaxDisconnects]
    BY <2>1 DEF QuickInv, LaterIsYounger
  <2>3. closes[disconnectCount + MaxDisconnects] \in Nat /\ closes[2 * MaxDisconnects] \in Nat
    BY <2>1, QuickAssumption DEF QuickInv, QuickTypeOK, Past
  <2> QED
    BY <2>2, <2>3, QuickAssumption DEF QuickInv, EarlierIsOlder
<1> QED BY <1>1, SpecSafe, PTL

\* A resume never starts a VPN that neither a smart stop nor the user stopped:
\* the reading of isSmartStopped may be stale, but not without a cause.
THEOREM ResumeHasItsReason == Spec => ResumesItsOwn
<1>1. (TypeOK /\ Safe) /\ [Next]_vars => [~up /\ up' => stopped \/ userActed']_vars
  <2> SUFFICES ASSUME TypeOK, Safe, Next, ~up, up' PROVE stopped \/ userActed'
    OBVIOUS
  <2>1. CASE Resume
    BY <2>1 DEF Resume, Safe, ResumeHasCause, MayResume, Cause
  <2>2. CASE UserToggles
    BY <2>2 DEF UserToggles
  <2>3. CASE ~Resume /\ ~UserToggles
    BY <2>3 DEF Next, ChangeNetwork, SettingsChanged, SetQuickResponse, TimerFires,
      BeginCheck, GetAddresses, Decide, Flagged, OptionsCome, SmartStop, SmartResume,
      Shows, TimePasses, runVars
  <2> QED BY <2>1, <2>2, <2>3
<1> QED BY <1>1, SpecSafe, PTL DEF Spec, ResumesItsOwn
=============================================================================
