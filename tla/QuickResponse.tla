--------------------------- MODULE QuickResponse ----------------------------
(***************************************************************************)
(* The quick response of VpnPlugin.kt: handleNetworkChange closes the      *)
(* connections of the core when the type of the network changes, at most   *)
(* so many times in a window.  Time is the age of the window and of the    *)
(* last closes, in ticks, up to the first age past the window.             *)
(***************************************************************************)
EXTENDS Naturals

CONSTANTS
  Types,          \* what getCurrentNetworkType returns
  Window,         \* disconnectWindowMs in ticks
  MaxDisconnects, \* maxDisconnectsInWindow
  NoType          \* lastNetworkType is null

ASSUME QuickAssumption ==
  Window \in Nat \ {0} /\ MaxDisconnects \in Nat \ {0} /\ NoType \notin Types

VARIABLES
  quickResponseEnabled,
  lastNetworkType,
  windowAge,       \* ticks since disconnectWindowStart
  disconnectCount,
  closes           \* history: closes[k] is the age of the k-th last close

quickVars ==
  <<quickResponseEnabled, lastNetworkType, windowAge, disconnectCount, closes>>

\* Past is the age of what is older than a window, or never was.
Past == Window + 1

LastCloses == 1 .. 2 * MaxDisconnects

QuickTypeOK ==
  /\ quickResponseEnabled \in BOOLEAN
  /\ lastNetworkType \in Types \union {NoType}
  /\ windowAge \in 0 .. Past
  /\ disconnectCount \in 0 .. MaxDisconnects
  /\ closes \in [LastCloses -> 0 .. Past]

QuickInit ==
  /\ quickResponseEnabled \in BOOLEAN
  /\ lastNetworkType = NoType
  /\ windowAge = Past
  /\ disconnectCount = 0
  /\ closes = [k \in LastCloses |-> Past]

\* The window has passed: now - disconnectWindowStart > disconnectWindowMs.
Passed == windowAge > Window

\* The count the limit is compared with.
CountInWindow == IF Passed THEN 0 ELSE disconnectCount

\* The connections are closed once more.
Close == closes' = [k \in LastCloses |-> IF k = 1 THEN 0 ELSE closes[k - 1]]

\* Faulty variant: the limit itself is let through.
CloseOnceMore ==
  /\ windowAge' = IF Passed THEN 0 ELSE windowAge
  /\ IF CountInWindow <= MaxDisconnects
     THEN /\ disconnectCount' = CountInWindow + 1
          /\ Close
     ELSE /\ disconnectCount' = CountInWindow
          /\ UNCHANGED closes

\* The end of handleNetworkChange: a window that has passed starts anew.
CloseConnections ==
  /\ windowAge' = IF Passed THEN 0 ELSE windowAge
  /\ IF CountInWindow < MaxDisconnects
     THEN /\ disconnectCount' = CountInWindow + 1
          /\ Close
     ELSE /\ disconnectCount' = CountInWindow
          /\ UNCHANGED closes

\* notifyNetworkChanged is called for a change from one known type to another.
Notifies(type) == lastNetworkType \notin {NoType, type}

\* handleNetworkChange; running: the run state is START.
HandleNetworkChange(type, running) ==
  /\ lastNetworkType' = type
  /\ IF Notifies(type) /\ quickResponseEnabled /\ running
     THEN CloseConnections
     ELSE UNCHANGED <<windowAge, disconnectCount, closes>>
  /\ UNCHANGED quickResponseEnabled

Older(age) == IF age = Past THEN Past ELSE age + 1

Tick ==
  /\ windowAge' = Older(windowAge)
  /\ closes' = [k \in LastCloses |-> Older(closes[k])]
  /\ UNCHANGED <<quickResponseEnabled, lastNetworkType, disconnectCount>>
=============================================================================
