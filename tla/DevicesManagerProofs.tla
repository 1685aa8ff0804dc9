------------------------ MODULE DevicesManagerProofs ------------------------
(***************************************************************************)
(* Theorems about the devices manager, for any number of devices, any      *)
(* powers, thresholds and cooldown, and any failures.                      *)
(***************************************************************************)
EXTENDS DevicesManager, TLAPS, WellFoundedInduction

\* last_change_ts is never later than the last switch the manager made, except
\* inside the iteration that switches, before it is recorded, and after an
\* exception has prevented that.
CooldownInv ==
  /\ since \in 0..Cooldown /\ calm \in 0..Cooldown
  /\ pc = "collect" => ~changed
  /\ (~abandoned /\ (pc = "wait" \/ ~changed)) => since <= calm

LEMMA CooldownNat == Cooldown \in Nat /\ Cooldown # 0
  BY PowerAssumption

LEMMA ThrowKeepsCooldown ==
  ASSUME CooldownInv, NEW d, NEW new, Throw(d, new)
  PROVE  CooldownInv'
<1>1. UNCHANGED <<since, changed>> /\ pc' = "wait"
  BY DEF Throw
<1>2. CASE UNCHANGED <<calm, abandoned>> /\ changed = FALSE
  BY <1>1, <1>2 DEF CooldownInv
<1>3. CASE calm' = calm /\ abandoned' = TRUE
  BY <1>1, <1>3 DEF CooldownInv
<1>4. CASE calm' = 0 /\ abandoned' = TRUE
  BY <1>1, <1>4, CooldownNat DEF CooldownInv
<1> QED
  BY <1>2, <1>3, <1>4 DEF Throw

LEMMA DriveKeepsCooldown ==
  ASSUME CooldownInv, pc \in {"forced", "grid", "battery"},
         NEW d, NEW new, NEW outcome, Drive(d, new, outcome),
         UNCHANGED <<pc, since, abandoned>>
  PROVE  CooldownInv'
<1>1. CASE UNCHANGED <<changed, calm>>
  BY <1>1 DEF CooldownInv
<1>2. CASE /\ changed' = (changed \/ outcome # "shelly")
           /\ calm' = IF outcome = "ok" THEN 0 ELSE calm
  <2>1. CASE outcome = "ok"
    <3>1. changed'
      BY <1>2, <2>1, "ok" # "shelly", Zenon
    <3>2. calm' = 0 /\ pc' \notin {"wait", "collect"}
      BY <1>2, <2>1
    <3> QED
      BY <3>1, <3>2, CooldownNat DEF CooldownInv
  <2>2. CASE outcome # "ok"
    BY <1>2, <2>2 DEF CooldownInv
  <2> QED
    BY <2>1, <2>2
<1> QED
  BY <1>1, <1>2 DEF Drive

LEMMA RecordKeepsCooldown ==
  ASSUME CooldownInv, pc # "collect", Record, UNCHANGED <<changed, calm>>
  PROVE  CooldownInv'
<1>1. pc' = "wait"
  BY DEF Record
<1>2. CASE changed
  <2>1. since' = 0 /\ calm' = calm
    BY <1>2 DEF Record
  <2> QED
    BY <1>1, <2>1, CooldownNat DEF CooldownInv
<1>3. CASE ~changed
  <2>1. since' = since /\ calm' = calm
    BY <1>3 DEF Record
  <2>2. abandoned' => abandoned
    BY DEF Record
  <2>3. ~abandoned' => ~abandoned
    BY <1>3, Zenon DEF Record
  <2>4. ~abandoned' => since' <= calm'
    BY <1>3, <2>1, <2>3 DEF CooldownInv
  <2> QED
    BY <1>1, <2>1, <2>4 DEF CooldownInv
<1> QED
  BY <1>2, <1>3

LEMMA CooldownStep == CooldownInv /\ [Next]_vars => CooldownInv'
<1> SUFFICES ASSUME CooldownInv, [Next]_vars PROVE CooldownInv'
  OBVIOUS
<1>1. CASE Collect
  BY <1>1 DEF Collect, CooldownInv
<1>2. ASSUME NEW d \in Devices, CollectThrows(d) \/ DriveForcedThrows(d) PROVE CooldownInv'
  BY <1>2, ThrowKeepsCooldown DEF CollectThrows, DriveForcedThrows
<1>3. CASE OffloadGridThrows \/ OffloadBatteryThrows
  <2>1. \E d, new : Throw(d, new)
    BY <1>3, Zenon DEF OffloadGridThrows, OffloadBatteryThrows
  <2> QED
    BY <2>1, ThrowKeepsCooldown
<1>4. ASSUME NEW d \in Devices, NEW outcome, DriveForced(d, outcome) PROVE CooldownInv'
  <2>1. Drive(d, d \in forceOn, outcome)
    BY <1>4, Zenon DEF DriveForced
  <2>2. pc = "forced" /\ UNCHANGED <<pc, since, abandoned>>
    BY <1>4, Zenon DEF DriveForced
  <2> QED
    BY <2>1, <2>2, DriveKeepsCooldown
<1>5. ASSUME NEW outcome, OffloadGrid(outcome) PROVE CooldownInv'
  BY <1>5, DriveKeepsCooldown DEF OffloadGrid
<1>6. ASSUME NEW outcome, OffloadBattery(outcome) PROVE CooldownInv'
  BY <1>6, DriveKeepsCooldown DEF OffloadBattery
<1>7. CASE Gate
  <2>1. CASE Record
    BY <1>7, <2>1, RecordKeepsCooldown DEF Gate
  <2>2. CASE since >= Cooldown /\ ~changed /\ pc' = "grid" /\ UNCHANGED <<since, abandoned, before, exact>>
    BY <1>7, <2>2 DEF Gate, CooldownInv
  <2> QED
    BY <1>7, <2>1, <2>2 DEF Gate
<1>8. CASE StartBattery
  BY <1>8 DEF StartBattery, CooldownInv
<1>9. CASE Finish
  BY <1>9, RecordKeepsCooldown DEF Finish
<1>10. CASE Wait
  BY <1>10, CooldownNat DEF Wait, Second, CooldownInv
<1>11. CASE Disturbance \/ Report \/ UNCHANGED vars
  BY <1>11 DEF Disturbance, Reschedule, Intervene, Vary, Weather, Rewire, Permit, Report, loop,
     vars, CooldownInv
<1> QED
  BY <1>1, <1>2, <1>3, <1>4, <1>5, <1>6, <1>7, <1>8, <1>9, <1>10, <1>11
  DEF Next, Manager, Exception, Order

\* Offload decisions are the cooldown time away from the last switch the manager
\* made, for every schedule, weather and failure, as long as no exception cut an
\* iteration short after it had switched something.
THEOREM CooldownTheorem == Spec => CooldownIsObserved
<1>1. Init => CooldownInv
  BY CooldownNat DEF Init, CooldownInv
<1>2. CooldownInv /\ [Next]_vars =>
        [(pc = "forced" /\ pc' = "grid") => (calm >= Cooldown \/ abandoned)]_vars
  <2> SUFFICES ASSUME CooldownInv, Next, pc = "forced", pc' = "grid"
               PROVE  calm >= Cooldown \/ abandoned
    BY DEF vars
  <2>1. ~Exception
    BY DEF Exception, CollectThrows, DriveForcedThrows, Throw, OffloadGridThrows, OffloadBatteryThrows
  <2>2. \A outcome : ~Order(outcome)
    BY DEF Order, DriveForced, OffloadGrid, OffloadBattery
  <2>3. ~Disturbance /\ ~Report
    BY DEF Disturbance, Reschedule, Intervene, Vary, Weather, Rewire, Permit, Report, loop
  <2>4. Gate
    BY <2>1, <2>2, <2>3 DEF Next, Manager, Collect, StartBattery, Finish, Wait
  <2>5. since >= Cooldown /\ ~changed
    BY <2>4 DEF Gate, Record
  <2> QED
    BY <2>5, CooldownNat DEF CooldownInv
<1> QED
  BY <1>1, <1>2, CooldownStep, PTL DEF Spec, CooldownIsObserved

-----------------------------------------------------------------------------
(* Sums of power. *)

\* s[d] is what the devices of S up to d use.
IsTotal(use, s, S) ==
  s = [d \in 0..N |-> IF d = 0 THEN 0 ELSE s[d - 1] + (IF d \in S THEN use[d] ELSE 0)]

\* Induction up to the last device: of the places where something fails, there is a
\* first one.
LEMMA FirstPlace ==
  ASSUME NEW E \in SUBSET (0..N), E # {}
  PROVE  \E p \in E : /\ \A y \in E : p <= y
                      /\ p = 0 \/ (p - 1 \in 0..N /\ p - 1 \notin E)
<1>1. E \subseteq Nat /\ N \in Nat
  BY DevicesAssumption
<1>2. PICK p \in E : \A y \in E : ~ <<y, p>> \in OpToRel(<, Nat)
  BY <1>1, NatLessThanWellFounded, WFMin
<1>3. \A y \in E : ~ y < p
  BY <1>1, <1>2 DEF OpToRel
<1> QED  BY <1>1, <1>3

LEMMA TotalExists ==
  ASSUME NEW use \in [Devices -> Nat], NEW S
  PROVE  \E s : IsTotal(use, s, S)
<1> DEFINE part(d) == IF d \in S THEN use[d] ELSE 0
           G(s, n) == [d \in 0..n |-> IF d = 0 THEN 0 ELSE s[d - 1] + part(d)]
           Summed(n) == \E s : s = G(s, n)
           E == {n \in 0..N : ~ Summed(n)}
<1> HIDE DEF part
<1>0. N \in Nat
  BY DevicesAssumption
<1>1. ASSUME NEW p \in E PROVE p # 0 /\ (p - 1 \in 0..N => p - 1 \in E)
  <2>1. ASSUME p = 0 PROVE Summed(p)
    <3> DEFINE s == [d \in 0..p |-> 0]
    <3>1. s = G(s, p)
      BY <2>1
    <3> HIDE DEF s, G
    <3> QED  BY <3>1
  <2>2. ASSUME p - 1 \in 0..N, NEW r, r = G(r, p - 1) PROVE Summed(p)
    <3> DEFINE s == [d \in 0..p |-> IF d = 0 THEN 0 ELSE r[d - 1] + part(d)]
    <3>1. p \in Nat /\ p - 1 \in Nat
      BY <1>0, <2>2
    <3>2. \A d \in 0..(p - 1) : s[d] = r[d]
      BY <2>2, <3>1
    <3>3. \A d \in 0..p : d = 0 \/ d - 1 \in 0..(p - 1)
      BY <3>1
    <3>4. s = G(s, p)
      BY <3>2, <3>3
    <3> HIDE DEF s, G
    <3> QED  BY <3>4
  <2> HIDE DEF G
  <2> QED  BY <2>1, <2>2
<1>2. E = {}
  <2> HIDE DEF E
  <2>1. E \in SUBSET (0..N)
    BY DEF E
  <2> QED  BY <1>1, <2>1, FirstPlace
<1>3. PICK s : s = G(s, N)
  <2> HIDE DEF G
  <2> QED  BY <1>0, <1>2
<1> QED  BY <1>3 DEF IsTotal, part

\* What defines the sum.
LEMMA TotalEquation ==
  ASSUME NEW use \in [Devices -> Nat], NEW S, NEW s, IsTotal(use, s, S), NEW d \in 0..N
  PROVE  s[d] = IF d = 0 THEN 0 ELSE s[d - 1] + (IF d \in S THEN use[d] ELSE 0)
<1> DEFINE g == [e \in 0..N |-> IF e = 0 THEN 0 ELSE s[e - 1] + (IF e \in S THEN use[e] ELSE 0)]
<1>1. s = g
  BY DEF IsTotal
<1>2. g[d] = IF d = 0 THEN 0 ELSE s[d - 1] + (IF d \in S THEN use[d] ELSE 0)
  OBVIOUS
<1> QED  BY <1>1, <1>2

LEMMA TotalType ==
  ASSUME NEW use \in [Devices -> Nat], NEW S, NEW s, IsTotal(use, s, S)
  PROVE  \A d \in 0..N : s[d] \in Nat
<1> DEFINE E == {d \in 0..N : s[d] \notin Nat}
<1>1. ASSUME NEW p \in E PROVE p # 0 /\ (p - 1 \in 0..N => p - 1 \in E)
  <2>1. s[p] = IF p = 0 THEN 0 ELSE s[p - 1] + (IF p \in S THEN use[p] ELSE 0)
    BY TotalEquation
  <2>2. p # 0 => use[p] \in Nat
    BY DevicesAssumption DEF Devices
  <2> QED  BY <2>1, <2>2
<1> HIDE DEF E
<1>2. E \in SUBSET (0..N)
  BY DEF E
<1>3. E = {}
  BY <1>1, <1>2, FirstPlace
<1> QED  BY <1>3 DEF E

LEMMA TotalIs ==
  ASSUME NEW use \in [Devices -> Nat], NEW S
  PROVE  \E s : IsTotal(use, s, S) /\ Total(use, S) = s[N] /\ Total(use, S) \in Nat
<1> DEFINE s == CHOOSE t : IsTotal(use, t, S)
<1>1. IsTotal(use, s, S)
  BY TotalExists
<1>2. Total(use, S) = s[N]
  BY DEF Total, IsTotal
<1>3. N \in 0..N
  BY DevicesAssumption
<1> HIDE DEF s
<1> QED
  BY <1>1, <1>2, <1>3, TotalType

\* Devices that are no others' use what both use.
LEMMA TotalUnion ==
  ASSUME NEW use \in [Devices -> Nat], NEW A, NEW B, A \cap B = {}
  PROVE  Total(use, A \cup B) = Total(use, A) + Total(use, B)
<1>1. PICK s : IsTotal(use, s, A) /\ Total(use, A) = s[N]
  BY TotalIs
<1>2. PICK t : IsTotal(use, t, B) /\ Total(use, B) = t[N]
  BY TotalIs
<1>3. PICK u : IsTotal(use, u, A \cup B) /\ Total(use, A \cup B) = u[N]
  BY TotalIs
<1> DEFINE E == {d \in 0..N : u[d] # s[d] + t[d]}
<1>4. ASSUME NEW p \in E PROVE p # 0 /\ (p - 1 \in 0..N => p - 1 \in E)
  <2>1. s[p] = IF p = 0 THEN 0 ELSE s[p - 1] + (IF p \in A THEN use[p] ELSE 0)
    BY <1>1, TotalEquation
  <2>2. t[p] = IF p = 0 THEN 0 ELSE t[p - 1] + (IF p \in B THEN use[p] ELSE 0)
    BY <1>2, TotalEquation
  <2>3. u[p] = IF p = 0 THEN 0 ELSE u[p - 1] + (IF p \in A \cup B THEN use[p] ELSE 0)
    BY <1>3, TotalEquation
  <2>4. \A d \in 0..N : s[d] \in Nat /\ t[d] \in Nat /\ u[d] \in Nat
    BY <1>1, <1>2, <1>3, TotalType
  <2>5. p # 0 => use[p] \in Nat
    BY DevicesAssumption DEF Devices
  <2>6. ~ (p \in A /\ p \in B)
    OBVIOUS
  <2> QED  BY <2>1, <2>2, <2>3, <2>4, <2>5, <2>6
<1> HIDE DEF E
<1>5. E \in SUBSET (0..N)
  BY DEF E
<1>6. E = {}
  BY <1>4, <1>5, FirstPlace
<1>7. N \in 0..N
  BY DevicesAssumption
<1> QED  BY <1>1, <1>2, <1>3, <1>6, <1>7 DEF E

LEMMA TotalOne ==
  ASSUME NEW use \in [Devices -> Nat], NEW e \in Devices
  PROVE  Total(use, {e}) = use[e]
<1>1. PICK s : IsTotal(use, s, {e}) /\ Total(use, {e}) = s[N]
  BY TotalIs
<1> DEFINE E == {d \in 0..N : s[d] # IF d < e THEN 0 ELSE use[e]}
<1>2. ASSUME NEW p \in E PROVE p # 0 /\ (p - 1 \in 0..N => p - 1 \in E)
  <2>1. s[p] = IF p = 0 THEN 0 ELSE s[p - 1] + (IF p \in {e} THEN use[p] ELSE 0)
    BY <1>1, TotalEquation
  <2>2. e \in Nat /\ e # 0 /\ use[e] \in Nat /\ p \in Nat
    BY DevicesAssumption DEF Devices
  <2>3. p = 0 \/ p - 1 \in 0..N
    BY DevicesAssumption
  <2> QED  BY <2>1, <2>2, <2>3
<1> HIDE DEF E
<1>3. E \in SUBSET (0..N)
  BY DEF E
<1>4. E = {}
  BY <1>2, <1>3, FirstPlace
<1>5. N \in 0..N /\ ~ N < e
  BY DevicesAssumption DEF Devices
<1> QED  BY <1>1, <1>4, <1>5 DEF E

LEMMA TotalNat ==
  ASSUME NEW use \in [Devices -> Nat]
  PROVE  \A S : Total(use, S) \in Nat
  BY TotalIs

LEMMA TotalNone ==
  ASSUME NEW use \in [Devices -> Nat]
  PROVE  Total(use, {}) = 0
<1>1. Total(use, {} \cup {}) = Total(use, {}) + Total(use, {})
  BY TotalUnion
<1>2. {} \cup {} = {}
  OBVIOUS
<1> QED  BY <1>1, <1>2, TotalNat

\* One more device uses so much more.
LEMMA TotalAdd ==
  ASSUME NEW use \in [Devices -> Nat], NEW S, NEW d \in Devices, d \notin S
  PROVE  Total(use, S \cup {d}) = Total(use, S) + use[d]
<1>1. S \cap {d} = {}
  OBVIOUS
<1>2. Total(use, S \cup {d}) = Total(use, S) + Total(use, {d})
  BY ONLY <1>1, TotalUnion
<1> QED  BY <1>2, TotalOne

\* Only the power of the devices of the set counts.
LEMMA TotalSame ==
  ASSUME NEW use \in [Devices -> Nat], NEW other \in [Devices -> Nat], NEW S,
         \A d \in S \cap Devices : use[d] = other[d]
  PROVE  Total(use, S) = Total(other, S)
<1>1. PICK s : IsTotal(use, s, S) /\ Total(use, S) = s[N]
  BY TotalIs
<1>2. PICK t : IsTotal(other, t, S) /\ Total(other, S) = t[N]
  BY TotalIs
<1> DEFINE E == {d \in 0..N : s[d] # t[d]}
<1>3. ASSUME NEW p \in E PROVE p # 0 /\ (p - 1 \in 0..N => p - 1 \in E)
  <2>1. s[p] = IF p = 0 THEN 0 ELSE s[p - 1] + (IF p \in S THEN use[p] ELSE 0)
    BY <1>1, TotalEquation
  <2>2. t[p] = IF p = 0 THEN 0 ELSE t[p - 1] + (IF p \in S THEN other[p] ELSE 0)
    BY <1>2, TotalEquation
  <2>3. p # 0 => p \in Devices
    BY DevicesAssumption DEF Devices
  <2> QED  BY <2>1, <2>2, <2>3
<1> HIDE DEF E
<1>4. E \in SUBSET (0..N)
  BY DEF E
<1>5. E = {}
  BY <1>3, <1>4, FirstPlace
<1>6. N \in 0..N
  BY DevicesAssumption
<1> QED  BY <1>1, <1>2, <1>5, <1>6 DEF E

LEMMA FirstDevice ==
  ASSUME NEW S \in SUBSET Devices, S # {}
  PROVE  Min(S) \in S /\ \A e \in S : Min(S) <= e
<1>1. S \in SUBSET (0..N)
  BY DEF Devices
<1>2. \E p \in S : \A y \in S : p <= y
  BY <1>1, FirstPlace
<1> QED  BY <1>2 DEF Min

-----------------------------------------------------------------------------
(* Type correctness. *)

\* An iteration starts with nothing counted.
TypeInv == TypeOK /\ (pc = "collect" => forcedPower = 0 /\ offloadedPower = 0)

\* The powers that sums are made of.
LEMMA Powers ==
  ASSUME TypeOK
  PROVE  /\ load \in [Devices -> Nat] /\ uses \in [Devices -> Nat] /\ counted \in [Devices -> Nat]
         /\ Base \in Nat
<1>1. load \in [Devices -> Nat] /\ Expected \in [Devices -> Nat]
  BY DevicesAssumption DEF TypeOK
<1> QED  BY <1>1, PowerAssumption DEF uses, counted

LEMMA DrawNat == ASSUME TypeOK PROVE Draw \in Nat
  BY Powers, TotalNat DEF Draw

LEMMA DriveTypes ==
  ASSUME TypeOK, NEW d \in Devices, NEW new, NEW outcome, Drive(d, new, outcome)
  PROVE  /\ on' \subseteq Devices /\ calm' \in 0..Cooldown
         /\ changed' \in BOOLEAN /\ exact' \in BOOLEAN
<1>1. on \subseteq Devices /\ calm \in 0..Cooldown /\ changed \in BOOLEAN /\ exact \in BOOLEAN
  BY DEF TypeOK
<1>2. CASE UNCHANGED <<on, changed, calm, exact>>
  BY <1>1, <1>2
<1>3. CASE /\ on' = IF outcome = "ok" THEN Switched(d, new) ELSE on
           /\ changed' = (changed \/ outcome # "shelly")
           /\ calm' = IF outcome = "ok" THEN 0 ELSE calm
           /\ exact' = (exact /\ outcome = "ok")
  <2>1. changed' \in BOOLEAN /\ exact' \in BOOLEAN
    BY <1>3
  <2>2. calm' \in 0..Cooldown
    BY <1>1, <1>3, CooldownNat
  <2>3. on' \subseteq Devices
    BY <1>1, <1>3 DEF Switched
  <2> QED  BY <2>1, <2>2, <2>3
<1> QED  BY <1>2, <1>3 DEF Drive

LEMMA ThrowTypes ==
  ASSUME TypeInv, NEW d \in Devices, NEW new, Throw(d, new)
  PROVE  TypeInv'
<1>1. on' \subseteq Devices /\ calm' \in 0..Cooldown /\ abandoned' \in BOOLEAN
  <2>1. on \subseteq Devices /\ calm \in 0..Cooldown /\ abandoned \in BOOLEAN
    BY DEF TypeInv, TypeOK
  <2>2. on' = on \/ on' = Switched(d, new)
    BY DEF Throw
  <2>3. calm' = calm \/ calm' = 0
    BY DEF Throw
  <2>4. abandoned' = abandoned \/ abandoned' = TRUE
    BY DEF Throw
  <2>5. Switched(d, new) \subseteq Devices
    BY <2>1 DEF Switched
  <2>6. calm' \in 0..Cooldown
    BY <2>1, <2>3, CooldownNat
  <2>7. abandoned' \in BOOLEAN
    BY <2>1, <2>4, Zenon
  <2> QED  BY <2>1, <2>2, <2>5, <2>6, <2>7
<1>2. pc' = "wait" /\ exact' = FALSE /\ before' = {}
  BY DEF Throw
<1>3. UNCHANGED <<environment, lists, powers, changed, since>>
  BY DEF Throw
<1> QED  BY <1>1, <1>2, <1>3 DEF TypeInv, TypeOK, environment, lists, powers

LEMMA InitTypes == Init => TypeInv
<1> SUFFICES ASSUME Init PROVE TypeInv
  OBVIOUS
<1>1. /\ reading \in Nat /\ forcedPower \in Int /\ offloadedPower \in Nat
      /\ since \in 0..Cooldown /\ calm \in 0..Cooldown
  BY PowerAssumption, CooldownNat DEF Init
<1>2. TypeOK
  BY <1>1 DEF Init, TypeOK
<1> QED  BY <1>2 DEF Init, TypeInv

LEMMA CollectTypes == ASSUME TypeInv, Collect PROVE TypeInv'
<1>1. /\ forceOn' \subseteq Devices /\ forceOff' \subseteq Devices \ forceOn'
      /\ grid' \subseteq Devices \ (forceOn' \cup forceOff')
      /\ battery' \subseteq Devices \ (forceOn' \cup forceOff' \cup grid')
  BY DEF Collect
<1> QED  BY <1>1 DEF TypeInv, TypeOK, Collect, environment, powers

LEMMA ForcedTypes ==
  ASSUME TypeInv, NEW d \in Devices, NEW outcome, DriveForced(d, outcome)
  PROVE  TypeInv'
<1>1. /\ on' \subseteq Devices /\ calm' \in 0..Cooldown
      /\ changed' \in BOOLEAN /\ exact' \in BOOLEAN
  <2>1. \E new : Drive(d, new, outcome)
    BY Zenon DEF DriveForced
  <2> QED  BY <2>1, DriveTypes DEF TypeInv
<1>2. forceOn' = forceOn \ {d} /\ forceOff' = forceOff \ {d} /\ pc = "forced"
  BY DEF DriveForced
<1>3. forcedPower' \in Int
  <2>1. load[d] \in Nat /\ forcedPower \in Int
    BY Powers DEF TypeInv, TypeOK
  <2> QED  BY <2>1 DEF DriveForced
<1>4. UNCHANGED <<environment, pc, grid, battery, offloadedPower, since, abandoned, before>>
  BY DEF DriveForced
<1> QED  BY <1>1, <1>2, <1>3, <1>4 DEF TypeInv, TypeOK, environment

LEMMA RecordTypes ==
  ASSUME TypeInv, Record, UNCHANGED <<on, environment, lists, powers, changed, calm>>
  PROVE  TypeInv'
<1>1. /\ pc' = "wait" /\ exact' = FALSE /\ before' = {}
      /\ since' \in 0..Cooldown /\ abandoned' \in BOOLEAN
  BY CooldownNat DEF Record, TypeInv, TypeOK
<1> QED  BY <1>1 DEF TypeInv, TypeOK, environment, lists, powers

LEMMA GateTypes == ASSUME TypeInv, Gate PROVE TypeInv'
<1>1. CASE Record
  BY <1>1, RecordTypes DEF Gate
<1>2. CASE pc' = "grid" /\ UNCHANGED <<since, abandoned, before, exact>>
  BY <1>2 DEF Gate, TypeInv, TypeOK, environment, lists, powers
<1> QED  BY <1>1, <1>2 DEF Gate

LEMMA OffloadGridTypes ==
  ASSUME TypeInv, NEW outcome, OffloadGrid(outcome)
  PROVE  TypeInv'
<1> DEFINE d == Min(grid)
<1>1. grid \in SUBSET Devices /\ d \in grid
  <2>1. grid \in SUBSET Devices /\ grid # {}
    BY DEF OffloadGrid, TypeInv, TypeOK
  <2> QED  BY <2>1, FirstDevice
<1>2. /\ on' \subseteq Devices /\ calm' \in 0..Cooldown
      /\ changed' \in BOOLEAN /\ exact' \in BOOLEAN
  <2>1. \E new : Drive(d, new, outcome)
    BY Zenon DEF OffloadGrid
  <2> QED  BY <1>1, <2>1, DriveTypes DEF TypeInv
<1>3. grid' = grid \ {d} /\ pc = "grid"
  BY DEF OffloadGrid
<1>4. offloadedPower' \in Nat
  <2>1. uses[d] \in Nat /\ offloadedPower \in Nat
    BY <1>1, Powers DEF TypeInv, TypeOK
  <2> QED  BY <2>1 DEF OffloadGrid
<1>5. UNCHANGED <<environment, pc, forceOn, forceOff, battery, forcedPower, since, abandoned, before>>
  BY DEF OffloadGrid
<1> HIDE DEF d
<1> QED  BY <1>2, <1>3, <1>4, <1>5 DEF TypeInv, TypeOK, environment

LEMMA StartBatteryTypes == ASSUME TypeInv, StartBattery PROVE TypeInv'
<1>1. /\ forcedPower' = (IF Metered THEN reading ELSE -1) - Total(load, battery \cap on)
      /\ offloadedPower' = 0 /\ pc' = "battery"
      /\ exact' = (exact /\ Metered /\ reading = Draw)
  BY DEF StartBattery
<1>2. UNCHANGED <<on, environment, lists, changed, since, calm, abandoned, before>>
  BY DEF StartBattery
<1>3. forcedPower' \in Int
  <2>1. Total(load, battery \cap on) \in Nat /\ reading \in Nat
    BY Powers, TotalNat DEF TypeInv, TypeOK
  <2> QED  BY <1>1, <2>1
<1>4. exact' \in BOOLEAN
  BY <1>1 DEF TypeInv, TypeOK
<1> QED  BY <1>1, <1>2, <1>3, <1>4 DEF TypeInv, TypeOK, environment, lists

LEMMA OffloadBatteryTypes ==
  ASSUME TypeInv, NEW outcome, OffloadBattery(outcome)
  PROVE  TypeInv'
<1> DEFINE d == Min(battery)
<1>1. battery \in SUBSET Devices /\ d \in battery
  <2>1. battery \in SUBSET Devices /\ battery # {}
    BY DEF OffloadBattery, TypeInv, TypeOK
  <2> QED  BY <2>1, FirstDevice
<1>2. /\ on' \subseteq Devices /\ calm' \in 0..Cooldown
      /\ changed' \in BOOLEAN /\ exact' \in BOOLEAN
  <2>1. \E new : Drive(d, new, outcome)
    BY Zenon DEF OffloadBattery
  <2> QED  BY <1>1, <2>1, DriveTypes DEF TypeInv
<1>3. battery' = battery \ {d} /\ pc = "battery"
  BY DEF OffloadBattery
<1>4. offloadedPower' \in Nat
  <2>1. uses[d] \in Nat /\ offloadedPower \in Nat
    BY <1>1, Powers DEF TypeInv, TypeOK
  <2> QED  BY <2>1 DEF OffloadBattery
<1>5. UNCHANGED <<environment, pc, forceOn, forceOff, grid, forcedPower, since, abandoned, before>>
  BY DEF OffloadBattery
<1> HIDE DEF d
<1> QED  BY <1>2, <1>3, <1>4, <1>5 DEF TypeInv, TypeOK, environment

LEMMA WaitTypes == ASSUME TypeInv, Wait PROVE TypeInv'
<1>1. since' \in 0..Cooldown /\ calm' \in 0..Cooldown
  BY CooldownNat DEF Wait, Second, TypeInv, TypeOK
<1>2. forcedPower' \in Int /\ offloadedPower' \in Nat
  BY DEF Wait
<1>3. TypeOK'
  BY <1>1, <1>2 DEF Wait, TypeInv, TypeOK, environment
<1> QED  BY <1>3 DEF Wait, TypeInv

LEMMA DisturbanceTypes == ASSUME TypeInv, Disturbance \/ Report PROVE TypeInv'
<1>1. UNCHANGED loop /\ exact' \in BOOLEAN
  BY DEF Disturbance, Reschedule, Intervene, Vary, Weather, Rewire, Permit, Report, Elsewhere,
     TypeInv, TypeOK
<1>2. /\ on' \subseteq Devices /\ wants' \in [Devices -> Wants] /\ onBattery' \in Wirings
      /\ load' \in Loads /\ weather' \in Weathers /\ allowed' \in BOOLEAN
  <2>1. ASSUME NEW d \in Devices, Reschedule(d) \/ Intervene(d)
        PROVE  on' \subseteq Devices /\ wants' \in [Devices -> Wants]
    BY <2>1 DEF Reschedule, Intervene, Switched, TypeInv, TypeOK
  <2> QED  BY <2>1 DEF Disturbance, Reschedule, Intervene, Vary, Weather, Rewire, Permit, Report,
              TypeInv, TypeOK
<1>3. reading' \in Nat
  <2>1. reading' = reading \/ reading' = Draw
    BY DEF Disturbance, Reschedule, Intervene, Vary, Weather, Rewire, Permit, Report
  <2> QED  BY <2>1, DrawNat DEF TypeInv, TypeOK
<1> QED  BY <1>1, <1>2, <1>3 DEF TypeInv, TypeOK, loop, lists, powers

LEMMA TypeStep == TypeInv /\ [Next]_vars => TypeInv'
<1> SUFFICES ASSUME TypeInv, [Next]_vars PROVE TypeInv'
  OBVIOUS
<1>1. CASE Collect
  BY <1>1, CollectTypes
<1>2. ASSUME NEW d \in Devices, CollectThrows(d) \/ DriveForcedThrows(d) PROVE TypeInv'
  BY <1>2, ThrowTypes DEF CollectThrows, DriveForcedThrows
<1>3. CASE OffloadGridThrows \/ OffloadBatteryThrows
  <2>1. grid \in SUBSET Devices /\ battery \in SUBSET Devices
    BY DEF TypeInv, TypeOK
  <2>2. \E d \in Devices : \E new : Throw(d, new)
    BY <1>3, <2>1, FirstDevice, Zenon DEF OffloadGridThrows, OffloadBatteryThrows
  <2> QED  BY <2>2, ThrowTypes
<1>4. ASSUME NEW outcome, Order(outcome) PROVE TypeInv'
  BY <1>4, ForcedTypes, OffloadGridTypes, OffloadBatteryTypes DEF Order
<1>5. CASE Gate
  BY <1>5, GateTypes
<1>6. CASE StartBattery
  BY <1>6, StartBatteryTypes
<1>7. CASE Finish
  BY <1>7, RecordTypes DEF Finish
<1>8. CASE Wait
  BY <1>8, WaitTypes
<1>9. CASE Disturbance \/ Report
  BY <1>9, DisturbanceTypes
<1>10. CASE UNCHANGED vars
  BY <1>10 DEF vars, environment, lists, powers, TypeInv, TypeOK
<1> QED
  BY <1>1, <1>2, <1>3, <1>4, <1>5, <1>6, <1>7, <1>8, <1>9, <1>10 DEF Next, Manager, Exception

LEMMA TypesInvariant == Spec => []TypeInv
  BY InitTypes, TypeStep, PTL DEF Spec

\* Type correctness, for any number of devices and whatever they draw: no device is in
\* two lists of an iteration, and the algorithms' sums of power are what TypeOK says.
THEOREM TypeInvariant == Spec => []TypeOK
<1>1. TypeInv => TypeOK
  BY DEF TypeInv
<1> QED  BY <1>1, TypesInvariant, PTL

-----------------------------------------------------------------------------
(* What an iteration decides. *)

\* The devices on the grid that are counted: forced ones, and those that offload and
\* have been decided.
GridForced  == (on \ onBattery) \cap Forced
GridDecided == ((on \ onBattery) \cap Offloading) \ grid

\* The account of the manager is that of the devices that are on, as long as the
\* iteration is exact, and the last device it has turned on, or left on, fitted.  The
\* devices still to be decided are on if they were when the iteration began, so that what
\* they use now is what will have been counted.
ForcedAccount ==
  /\ forceOn \cup forceOff \subseteq Forced
  /\ grid = Offloading \ onBattery /\ battery = Offloading \cap onBattery
  /\ offloadedPower = 0
  /\ forcedPower = Total(load, GridForced \ (forceOn \cup forceOff))
  /\ changed \/ on = before

GridAccount ==
  /\ battery = Offloading \cap onBattery
  /\ grid \subseteq Offloading \ onBattery
  /\ forcedPower = Total(counted, GridForced) /\ offloadedPower = Total(counted, GridDecided)
  /\ \A d \in (Offloading \ onBattery) \ grid : \A e \in grid : d < e
  /\ \A d \in Devices : d \in (Offloading \ onBattery) \ grid \/ (d \in on <=> d \in before)

GridDecisions ==
  /\ GridDecided # {} => MayBeOn(forcedPower + offloadedPower)
  /\ \A d \in ((Offloading \ onBattery) \ grid) \ on : ~ SurelyOn(Total(counted, LoadBefore(d) \cup {d}))

BatteryAccount ==
  /\ battery \subseteq Offloading \cap onBattery
  /\ forcedPower + offloadedPower + Total(counted, battery \cap on)
       = Base + Total(counted, on \cap onBattery)
  /\ \A d \in battery : d \in on <=> d \in before
  /\ (on \cap onBattery \cap Offloading) \ battery # {}
       => allowed /\ forcedPower + offloadedPower < BatteryMax

ExactInv ==
  exact => /\ pc \in {"forced", "grid", "battery"}
           /\ pc = "forced" => ForcedAccount
           /\ pc = "grid" => forceOn \cup forceOff = {} /\ GridAccount /\ GridDecisions
           /\ pc = "battery" => BatteryAccount

\* Whoever is asked wants one of three things.
LEMMA WantsAre ==
  ASSUME TypeOK
  PROVE  /\ Forced \cap Offloading = {}
         /\ \A d \in Devices : wants[d] # "SKIP" <=> d \in Forced \cup Offloading
  BY DevicesAssumption DEF TypeOK, Forced, Offloading

\* In an iteration that stays exact an order is obeyed.
LEMMA DriveObeyed ==
  ASSUME NEW d, NEW new, NEW outcome, Drive(d, new, outcome), exact'
  PROVE  exact /\ on' = IF new THEN on \cup {d} ELSE on \ {d}
<1>1. CASE (d \in on) = new /\ UNCHANGED <<on, exact>>
  <2>1. on' = on /\ exact
    BY <1>1
  <2>2. CASE new
    BY <1>1, <2>1, <2>2
  <2>3. CASE ~ new
    BY <1>1, <2>1, <2>3
  <2> QED  BY <2>2, <2>3
<1>2. CASE /\ on' = IF outcome = "ok" THEN Switched(d, new) ELSE on
           /\ exact' = (exact /\ outcome = "ok")
  BY <1>2 DEF Switched
<1> QED  BY <1>1, <1>2 DEF Drive

LEMMA CollectExact == ASSUME TypeInv, Collect PROVE ExactInv'
<1>1. pc' = "forced" /\ forcedPower' = 0 /\ offloadedPower' = 0
  BY DEF Collect, powers, TypeInv
<1>2. /\ on' = on /\ before' = on /\ load' = load /\ onBattery' = onBattery
      /\ Forced' = Forced /\ Offloading' = Offloading
      /\ on \subseteq Devices
  BY DEF Collect, environment, Forced, Offloading, TypeInv, TypeOK
<1>3. /\ forceOn' \cup forceOff' = Forced
      /\ grid' = Offloading \ onBattery /\ battery' = Offloading \cap onBattery
  BY DEF Collect, Forced, Offloading
<1>4. GridForced' \ (forceOn' \cup forceOff') = {}
  BY <1>2, <1>3 DEF GridForced
<1>5. Total(load, {}) = 0
  BY Powers, TotalNone DEF TypeInv
<1> QED  BY <1>1, <1>2, <1>3, <1>4, <1>5 DEF ExactInv, ForcedAccount

LEMMA ForcedExact ==
  ASSUME TypeInv, ExactInv, NEW d \in Devices, NEW outcome, DriveForced(d, outcome)
  PROVE  ExactInv'
<1> SUFFICES ASSUME exact' PROVE ExactInv'
  BY DEF ExactInv
<1> DEFINE L == forceOn \cup forceOff
           new == d \in forceOn
<1>1. exact /\ on' = IF new THEN on \cup {d} ELSE on \ {d}
  <2>1. Drive(d, new, outcome)
    BY Zenon DEF DriveForced
  <2> HIDE DEF new
  <2> QED  BY <2>1, DriveObeyed
<1>2. pc = "forced" /\ pc' = "forced" /\ d \in L
  BY DEF DriveForced
<1>3. forceOn' = forceOn \ {d} /\ forceOff' = forceOff \ {d}
  BY DEF DriveForced
<1>4. forcedPower' = forcedPower + (IF d \in on' \ onBattery THEN load[d] ELSE 0)
  BY DEF DriveForced
<1>5. UNCHANGED <<wants, onBattery, load, before, grid, battery, offloadedPower>>
  BY DEF DriveForced, environment
<1>6. Forced' = Forced /\ Offloading' = Offloading
  BY <1>5 DEF Forced, Offloading
<1>7. ForcedAccount
  BY <1>1, <1>2 DEF ExactInv
<1>8. d \in Forced
  BY <1>2, <1>7 DEF ForcedAccount
<1> DEFINE old == GridForced \ L
<1>9. GridForced' \ (forceOn' \cup forceOff')
        = IF d \in on' \ onBattery THEN old \cup {d} ELSE old
  BY <1>1, <1>2, <1>3, <1>5, <1>6, <1>8 DEF GridForced
<1>10. d \notin old
  BY <1>2
<1>11. forcedPower' = Total(load, GridForced' \ (forceOn' \cup forceOff'))
  <2>1. forcedPower = Total(load, old)
    BY <1>7 DEF ForcedAccount
  <2> HIDE DEF old
  <2>2. Total(load, old \cup {d}) = Total(load, old) + load[d]
    BY <1>10, Powers, TotalAdd DEF TypeInv
  <2>5. Total(load, old) \in Nat
    BY Powers, TotalNat DEF TypeInv
  <2>3. CASE d \in on' \ onBattery
    BY <1>4, <1>9, <2>1, <2>2, <2>3
  <2>4. CASE d \notin on' \ onBattery
    <3>1. forcedPower' = forcedPower
      BY <1>4, <2>1, <2>4, <2>5
    <3>2. GridForced' \ (forceOn' \cup forceOff') = old
      BY <1>9, <2>4
    <3> QED  BY <2>1, <3>1, <3>2
  <2> QED  BY <2>3, <2>4
<1>12. forceOn' \cup forceOff' \subseteq Forced'
  BY <1>3, <1>6, <1>7 DEF ForcedAccount
<1>13. changed' \/ on' = before'
  <2>1. (UNCHANGED <<on, changed>>) \/ (changed' = (changed \/ outcome # "shelly"))
    BY DEF DriveForced, Drive
  <2>2. CASE UNCHANGED <<on, changed>>
    BY <1>5, <1>7, <2>2 DEF ForcedAccount
  <2>3. CASE changed' = (changed \/ outcome # "shelly") /\ outcome = "ok"
    BY <2>3
  <2>4. UNCHANGED <<on, changed>> \/ outcome = "ok"
    BY <1>1 DEF DriveForced, Drive
  <2> QED  BY <2>1, <2>2, <2>3, <2>4
<1>14. ForcedAccount'
  BY <1>5, <1>6, <1>7, <1>11, <1>12, <1>13 DEF ForcedAccount
<1> QED  BY <1>2, <1>14 DEF ExactInv

LEMMA GateExact == ASSUME TypeInv, ExactInv, Gate PROVE ExactInv'
<1>1. CASE Record
  BY <1>1 DEF Record, ExactInv
<1>2. CASE ~ changed /\ pc' = "grid" /\ UNCHANGED <<since, abandoned, before, exact>>
  <2> SUFFICES ASSUME exact PROVE ExactInv'
    BY <1>2 DEF ExactInv
  <2>1. /\ pc = "forced" /\ forceOn \cup forceOff = {}
        /\ UNCHANGED <<on, environment, lists, powers>>
    BY DEF Gate
  <2>2. ForcedAccount
    BY <2>1 DEF ExactInv
  <2>3. GridDecided = {} /\ GridForced \ (forceOn \cup forceOff) = GridForced
        /\ (Offloading \ onBattery) \ grid = {}
    BY <2>1, <2>2 DEF ForcedAccount, GridDecided
  <2>same. on = before
    BY <1>2, <2>2 DEF ForcedAccount
  <2>sums. /\ Total(load, GridForced) = Total(counted, GridForced)
           /\ Total(counted, GridDecided) = 0
    <3>1. \A d \in GridForced \cap Devices : load[d] = counted[d]
      BY <2>same DEF GridForced, counted
    <3> QED  BY <2>3, <3>1, Powers, TotalSame, TotalNone DEF TypeInv
  <2>4. GridAccount
    BY <2>2, <2>3, <2>same, <2>sums DEF ForcedAccount, GridAccount
  <2>5. GridDecisions
    BY <2>3 DEF GridDecisions
  <2>6. /\ (GridAccount /\ GridDecisions)' <=> (GridAccount /\ GridDecisions)
        /\ forceOn' \cup forceOff' = {}
    BY <1>2, <2>1 DEF environment, lists, powers, GridAccount, GridDecisions, GridForced, GridDecided,
       Forced, Offloading, counted, MayBeOn, SurelyOn, Predicted, LoadBefore, GridLoad
  <2> QED  BY <1>2, <2>4, <2>5, <2>6 DEF ExactInv
<1> QED  BY <1>1, <1>2 DEF Gate

LEMMA OffloadGridExact ==
  ASSUME TypeInv, ExactInv, NEW outcome, OffloadGrid(outcome)
  PROVE  ExactInv'
<1> SUFFICES ASSUME exact' PROVE ExactInv'
  BY DEF ExactInv
<1> DEFINE d == Min(grid)
           new == Hysteresis(d)
           active == forcedPower + offloadedPower
<1>1. exact /\ on' = IF new THEN on \cup {d} ELSE on \ {d}
  <2>1. Drive(d, new, outcome)
    BY Zenon DEF OffloadGrid
  <2> HIDE DEF d, new
  <2> QED  BY <2>1, DriveObeyed
<1>2. pc = "grid" /\ pc' = "grid"
  BY DEF OffloadGrid
<1>3. /\ grid' = grid \ {d}
      /\ offloadedPower' = offloadedPower + (IF new THEN uses[d] ELSE 0)
  BY DEF OffloadGrid
<1>4. UNCHANGED <<wants, onBattery, load, before, weather, forceOn, forceOff, battery, forcedPower>>
  BY DEF OffloadGrid, environment
<1>5. Forced' = Forced /\ Offloading' = Offloading
  BY <1>4 DEF Forced, Offloading
<1>6. GridAccount /\ GridDecisions /\ forceOn \cup forceOff = {}
  BY <1>1, <1>2 DEF ExactInv
<1>7. d \in grid /\ (\A e \in grid : d <= e) /\ grid \subseteq Devices /\ d \in Devices
  <2>1. grid \in SUBSET Devices /\ grid # {}
    BY DEF OffloadGrid, TypeInv, TypeOK
  <2> QED  BY <2>1, FirstDevice
<1>uses. uses[d] = counted[d] /\ counted' = counted
  BY <1>4, <1>6, <1>7 DEF GridAccount, uses, counted
<1>8. /\ IF d \in on THEN counted[d] - (weather.avg - active) < Import
         ELSE Predicted(counted[d] + active + Export)
      <=> new
  BY <1>uses DEF Hysteresis
<1>9. d \in Offloading /\ d \notin onBattery /\ d \notin Forced
  BY <1>6, <1>7, WantsAre DEF GridAccount, TypeInv
<1>type. counted \in [Devices -> Nat]
  BY Powers DEF TypeInv
<1> HIDE DEF d, new
<1>10. GridForced' = GridForced
  BY <1>1, <1>4, <1>5, <1>9 DEF GridForced
<1>11. GridDecided' = IF new THEN GridDecided \cup {d} ELSE GridDecided
  BY <1>1, <1>3, <1>4, <1>5, <1>7, <1>9 DEF GridDecided
<1>12. d \notin GridDecided
  BY <1>7 DEF GridDecided
<1>13. /\ forcedPower = Total(counted, GridForced) /\ offloadedPower = Total(counted, GridDecided)
       /\ forcedPower \in Nat /\ offloadedPower \in Nat /\ counted[d] \in Nat
  BY <1>6, <1>7, <1>type, TotalNat DEF GridAccount
<1>14. Total(counted, GridDecided \cup {d}) = Total(counted, GridDecided) + counted[d]
  BY <1>7, <1>12, <1>type, TotalAdd
<1>15. forcedPower' = Total(counted', GridForced') /\ offloadedPower' = Total(counted', GridDecided')
  BY <1>uses, <1>3, <1>4, <1>10, <1>11, <1>13, <1>14
<1>16. GridAccount'
  <2>1. battery' = Offloading' \cap onBattery' /\ grid' \subseteq Offloading' \ onBattery'
    BY <1>3, <1>4, <1>5, <1>6 DEF GridAccount
  <2>2. \A c \in (Offloading' \ onBattery') \ grid' : \A e \in grid' : c < e
    <3>1. \A e \in grid' : d < e
      BY <1>3, <1>7 DEF Devices
    <3> QED  BY <1>3, <1>4, <1>5, <1>6, <3>1 DEF GridAccount
  <2>3. \A c \in Devices : c \in (Offloading' \ onBattery') \ grid' \/ (c \in on' <=> c \in before')
    BY <1>1, <1>3, <1>4, <1>5, <1>6, <1>9 DEF GridAccount
  <2> QED  BY <1>15, <2>1, <2>2, <2>3 DEF GridAccount
\* What comes before a device that has been decided.
<1>others. \A e : e # d => (e \in on' <=> e \in on)
  BY <1>1
<1>before. ASSUME NEW c
         PROVE  /\ LoadBefore(c) = {e \in (on \ onBattery) \cap (Forced \cup Offloading) :
                                      e \in Forced \/ e < c}
                /\ LoadBefore(c)' = {e \in (on' \ onBattery) \cap (Forced \cup Offloading) :
                                       e \in Forced \/ e < c}
  <2>1. TypeOK /\ TypeOK'
    BY OffloadGridTypes DEF TypeInv
  <2>2. on \subseteq Devices /\ on' \subseteq Devices
    BY <2>1 DEF TypeOK
  <2>3. \A e \in Devices : wants[e] # "SKIP" <=> e \in Forced \cup Offloading
    BY <2>1, WantsAre
  <2> QED  BY <1>4, <1>5, <2>2, <2>3 DEF LoadBefore, GridLoad
<1>17. weather.avg \in Int /\ Import \in Nat /\ Export \in Nat
  BY PowerAssumption DEF TypeInv, TypeOK
<1>18. GridDecided' # {} => MayBeOn(forcedPower + offloadedPower)'
  <2>1. CASE new
    <3>1. forcedPower' + offloadedPower' = active + counted[d]
      BY <1>uses, <1>3, <1>4, <1>13, <2>1
    <3>2. MayBeOn(active + counted[d])
      <4>1. CASE d \in on
        BY <1>8, <1>13, <1>17, <2>1, <4>1 DEF MayBeOn
      <4>2. CASE d \notin on
        <5>1. counted[d] + active + Export = active + counted[d] + Export
          BY <1>13, <1>17
        <5> QED  BY <1>8, <2>1, <4>2, <5>1 DEF MayBeOn
      <4> QED  BY <4>1, <4>2
    <3> QED  BY <1>4, <3>1, <3>2 DEF MayBeOn, Predicted
  <2>2. CASE ~ new
    <3>1. forcedPower' + offloadedPower' = active /\ GridDecided' = GridDecided
      BY <1>3, <1>4, <1>11, <1>13, <2>2
    <3> QED  BY <1>4, <1>6, <3>1 DEF GridDecisions, MayBeOn, Predicted
  <2> QED  BY <2>1, <2>2
<1>19. ASSUME NEW c \in ((Offloading' \ onBattery') \ grid') \ on'
       PROVE  ~ SurelyOn(Total(counted, LoadBefore(c) \cup {c}))'
  <2>1. c \in Offloading \ onBattery /\ (c = d \/ c \notin grid)
    BY <1>3, <1>4, <1>5, <1>19
  <2>2. SurelyOn(Total(counted, LoadBefore(c) \cup {c}))'
          <=> SurelyOn(Total(counted, LoadBefore(c)' \cup {c}))
    BY <1>4, <1>uses DEF SurelyOn, Predicted
  <2>3. CASE c = d
    <3>1. LoadBefore(c)' = GridForced \cup GridDecided
      <4>1. \A e \in GridDecided : e < d
        BY <1>6, <1>7 DEF GridAccount, GridDecided
      <4>2. \A e \in grid : ~ e < d
        BY <1>7 DEF Devices
      <4>3. ~ d < d
        BY <1>7 DEF Devices
      <4>4. ASSUME NEW e
            PROVE  e \in LoadBefore(c)' <=> e \in GridForced \cup GridDecided
        <5>1. e \in LoadBefore(c)' <=>
                e \in (on' \ onBattery) \cap (Forced \cup Offloading) /\ (e \in Forced \/ e < d)
          BY <1>before, <2>3
        <5>2. CASE e = d
          BY <1>9, <1>12, <4>3, <5>1, <5>2 DEF GridForced
        <5>3. CASE e # d
          <6>1. e \in on' <=> e \in on
            BY <1>others, <5>3
          <6> QED  BY <4>1, <4>2, <5>1, <6>1 DEF GridForced, GridDecided
        <5> QED  BY <5>2, <5>3
      <4> QED  BY <4>4
    <3>2. GridForced \cap GridDecided = {} /\ d \notin GridForced \cup GridDecided
      BY <1>9, <1>12, WantsAre DEF GridForced, GridDecided, TypeInv
    <3>3. Total(counted, LoadBefore(c)' \cup {c}) = active + counted[d]
      BY <1>7, <1>13, <1>type, <2>3, <3>1, <3>2, TotalUnion, TotalAdd
    <3>4. ~ new
      BY <1>1, <1>19, <2>3
    <3>5. ~ SurelyOn(active + counted[d])
      <4>1. CASE d \in on
        BY <1>8, <1>13, <1>17, <3>4, <4>1 DEF SurelyOn
      <4>2. CASE d \notin on
        <5>1. counted[d] + active + Export = active + counted[d] + Export
          BY <1>13, <1>17
        <5> QED  BY <1>8, <3>4, <4>2, <5>1 DEF SurelyOn
      <4> QED  BY <4>1, <4>2
    <3> QED  BY <2>2, <3>3, <3>5
  <2>4. CASE c # d
    <3>1. c \in ((Offloading \ onBattery) \ grid) \ on
      BY <1>1, <1>19, <2>1, <2>4
    <3>2. ~ d < c
      <4>1. c < d
        BY <1>6, <1>7, <3>1 DEF GridAccount
      <4>2. c \in Int /\ d \in Int
        BY <1>7, <3>1 DEF Offloading, Devices
      <4> QED  BY <4>1, <4>2
    <3>3. LoadBefore(c)' = LoadBefore(c)
      <4>1. ASSUME NEW e PROVE e \in LoadBefore(c)' <=> e \in LoadBefore(c)
        BY <1>9, <1>others, <1>before, <3>2
      <4> QED  BY <4>1
    <3> QED  BY <1>6, <2>2, <3>1, <3>3 DEF GridDecisions
  <2> QED  BY <2>3, <2>4
<1>20. GridDecisions'
  BY <1>18, <1>19 DEF GridDecisions
<1> QED  BY <1>2, <1>4, <1>6, <1>16, <1>20 DEF ExactInv

LEMMA StartBatteryExact == ASSUME TypeInv, ExactInv, StartBattery PROVE ExactInv'
<1> SUFFICES ASSUME exact' PROVE ExactInv'
  BY DEF ExactInv
<1>1. /\ pc = "grid" /\ pc' = "battery" /\ exact /\ Metered /\ reading = Draw
      /\ offloadedPower' = 0
  BY DEF StartBattery
<1>2. forcedPower' = Draw - Total(load, battery \cap on)
  BY <1>1 DEF StartBattery
<1>3. UNCHANGED <<on, wants, onBattery, load, before, battery>>
  BY DEF StartBattery, environment, lists
<1>4. battery = Offloading \cap onBattery /\ \A d \in onBattery \cap Devices : d \in on <=> d \in before
  BY <1>1 DEF ExactInv, GridAccount
<1>5. battery' = battery /\ on' = on /\ onBattery' = onBattery /\ counted' = counted
  BY <1>3 DEF counted
\* What the devices on the battery draw is what is counted for them.
<1>6. /\ Total(load, on \cap onBattery) = Total(counted, on \cap onBattery)
      /\ Total(load, battery \cap on) = Total(counted, battery \cap on)
  <2>1. \A d \in on \cap onBattery \cap Devices : load[d] = counted[d]
    BY <1>4 DEF counted
  <2>2. \A d \in battery \cap on \cap Devices : load[d] = counted[d]
    BY <1>4, <2>1
  <2> QED  BY <2>1, <2>2, Powers, TotalSame DEF TypeInv
<1>7. forcedPower' + offloadedPower' + Total(counted', battery' \cap on')
        = Base + Total(counted', on' \cap onBattery')
  <2>1. /\ Total(counted, battery \cap on) \in Nat /\ Total(counted, on \cap onBattery) \in Nat
        /\ Base \in Nat
    BY Powers, TotalNat DEF TypeInv
  <2> QED  BY <1>1, <1>2, <1>5, <1>6, <2>1 DEF Draw
<1>8. /\ battery' \subseteq Offloading' \cap onBattery'
      /\ (on' \cap onBattery' \cap Offloading') \ battery' = {}
  BY <1>3, <1>4 DEF Offloading
<1>9. \A d \in battery' : d \in on' <=> d \in before'
  BY <1>3, <1>4 DEF TypeInv, TypeOK, Offloading
<1>10. BatteryAccount'
  BY <1>7, <1>8, <1>9 DEF BatteryAccount
<1> QED  BY <1>1, <1>10 DEF ExactInv

LEMMA OffloadBatteryExact ==
  ASSUME TypeInv, ExactInv, NEW outcome, OffloadBattery(outcome)
  PROVE  ExactInv'
<1> SUFFICES ASSUME exact' PROVE ExactInv'
  BY DEF ExactInv
<1> DEFINE d == Min(battery)
           new == FitsBattery(d)
           others == (on \cap onBattery) \ {d}
<1>1. exact /\ on' = IF new THEN on \cup {d} ELSE on \ {d}
  <2>1. Drive(d, new, outcome)
    BY Zenon DEF OffloadBattery
  <2> HIDE DEF d, new
  <2> QED  BY <2>1, DriveObeyed
<1>2. pc = "battery" /\ pc' = "battery"
  BY DEF OffloadBattery
<1>3. /\ battery' = battery \ {d}
      /\ offloadedPower' = offloadedPower + (IF new THEN uses[d] ELSE 0)
  BY DEF OffloadBattery
<1>4. UNCHANGED <<wants, onBattery, load, before, allowed, forcedPower>>
  BY DEF OffloadBattery, environment
<1>5. BatteryAccount
  BY <1>1, <1>2 DEF ExactInv
<1>6. d \in battery /\ battery \subseteq Devices /\ d \in Devices
  <2>1. battery \in SUBSET Devices /\ battery # {}
    BY DEF OffloadBattery, TypeInv, TypeOK
  <2> QED  BY <2>1, FirstDevice
<1>uses. uses[d] = counted[d] /\ counted' = counted
  BY <1>4, <1>5, <1>6 DEF BatteryAccount, uses, counted
<1>type. counted \in [Devices -> Nat]
  BY Powers DEF TypeInv
<1>7. new <=> allowed /\ forcedPower + offloadedPower + counted[d] < BatteryMax
  BY <1>uses DEF FitsBattery
<1> HIDE DEF d, new
<1>8. d \in Offloading /\ d \in onBattery
  BY <1>5, <1>6 DEF BatteryAccount
<1>9. counted[d] \in Nat /\ Base \in Nat /\ forcedPower \in Int /\ offloadedPower \in Nat
  BY <1>6, <1>type, Powers DEF TypeInv, TypeOK
<1> DEFINE delivered == Base + Total(counted, on \cap onBattery)
<1>10. forcedPower + offloadedPower + Total(counted, battery \cap on) = delivered
  BY <1>5 DEF BatteryAccount
\* Both before and after, the other devices use the same; d counts in the list
\* before, if it was on, and in offloadedPower after, if it is.
<1>11. /\ delivered = Base + Total(counted, others) + (IF d \in on THEN counted[d] ELSE 0)
       /\ delivered' = Base + Total(counted, others) + (IF new THEN counted[d] ELSE 0)
  <2>1. /\ Total(counted, others \cup {d}) = Total(counted, others) + counted[d]
        /\ Total(counted, others) \in Nat
    BY <1>6, <1>type, TotalAdd, TotalNat
  <2>2. on \cap onBattery = IF d \in on THEN others \cup {d} ELSE others
    BY <1>8
  <2>3. on' \cap onBattery' = IF new THEN others \cup {d} ELSE others
    BY <1>1, <1>4, <1>8
  <2>4. delivered' = Base + Total(counted, on' \cap onBattery')
    BY <1>uses
  <2> HIDE DEF others
  <2>5. Total(counted, on \cap onBattery) = Total(counted, others) + (IF d \in on THEN counted[d] ELSE 0)
    <3>1. CASE d \in on
      BY <2>1, <2>2, <3>1
    <3>2. CASE d \notin on
      <4>1. on \cap onBattery = others
        BY <2>2, <3>2
      <4>2. Total(counted, on \cap onBattery) = Total(counted, others)
        BY <4>1
      <4>3. (IF d \in on THEN counted[d] ELSE 0) = 0
        BY <3>2
      <4> QED  BY <2>1, <4>2, <4>3
    <3> QED  BY <3>1, <3>2
  <2>6. Total(counted, on' \cap onBattery') = Total(counted, others) + (IF new THEN counted[d] ELSE 0)
    <3>1. CASE new
      BY <2>1, <2>3, <3>1
    <3>2. CASE ~ new
      <4>1. on' \cap onBattery' = others
        BY <2>3, <3>2
      <4>2. Total(counted, on' \cap onBattery') = Total(counted, others)
        BY <4>1
      <4>3. (IF new THEN counted[d] ELSE 0) = 0
        BY <3>2
      <4> QED  BY <2>1, <4>2, <4>3
    <3> QED  BY <3>1, <3>2
  <2> QED  BY <1>9, <2>1, <2>4, <2>5, <2>6
<1>12. Total(counted, battery \cap on)
         = Total(counted, battery' \cap on') + (IF d \in on THEN counted[d] ELSE 0)
  <2>1. battery' \cap on' = (battery \cap on) \ {d}
    BY <1>1, <1>3
  <2> DEFINE rest == (battery \cap on) \ {d}
  <2>2. /\ Total(counted, rest \cup {d}) = Total(counted, rest) + counted[d]
        /\ Total(counted, rest) \in Nat
    BY <1>6, <1>type, TotalAdd, TotalNat
  <2>3. battery \cap on = IF d \in on THEN rest \cup {d} ELSE rest
    BY <1>6
  <2>4. battery' \cap on' = rest
    BY <2>1
  <2> HIDE DEF rest
  <2>5. CASE d \in on
    BY <2>2, <2>3, <2>4, <2>5
  <2>6. CASE d \notin on
    BY <2>2, <2>3, <2>4, <2>6
  <2> QED  BY <2>5, <2>6
<1>13. forcedPower' + offloadedPower' + Total(counted, battery' \cap on') = delivered'
  <2>1. /\ Total(counted, battery \cap on) \in Nat /\ Total(counted, battery' \cap on') \in Nat
        /\ Total(counted, others) \in Nat
    BY <1>type, TotalNat
  <2> HIDE DEF others
  <2> QED  BY <1>uses, <1>3, <1>4, <1>9, <1>10, <1>11, <1>12, <2>1
<1>14. battery' \subseteq Offloading' \cap onBattery' /\ Offloading' = Offloading
  BY <1>3, <1>4, <1>5 DEF BatteryAccount, Offloading
<1>15. ASSUME (on' \cap onBattery' \cap Offloading') \ battery' # {}
       PROVE  allowed' /\ forcedPower' + offloadedPower' < BatteryMax
  <2>1. CASE new
    BY <1>uses, <1>3, <1>4, <1>7, <1>9, <2>1, PowerAssumption
  <2>2. CASE ~ new
    <3>1. (on \cap onBattery \cap Offloading) \ battery # {}
      BY <1>1, <1>3, <1>4, <1>14, <1>15, <2>2
    <3> QED  BY <1>3, <1>4, <1>5, <1>9, <2>2, <3>1 DEF BatteryAccount
  <2> QED  BY <2>1, <2>2
<1>16. \A e \in battery' : e \in on' <=> e \in before'
  BY <1>1, <1>3, <1>4, <1>5 DEF BatteryAccount
<1>17. BatteryAccount'
  BY <1>uses, <1>13, <1>14, <1>15, <1>16 DEF BatteryAccount
<1> QED  BY <1>2, <1>17 DEF ExactInv

LEMMA ExactStep == TypeInv /\ TypeInv' /\ ExactInv /\ [Next]_vars => ExactInv'
<1> SUFFICES ASSUME TypeInv, TypeInv', ExactInv, [Next]_vars PROVE ExactInv'
  OBVIOUS
<1>1. CASE Collect
  BY <1>1, CollectExact
<1>2. CASE Exception
  <2>1. exact' = FALSE
    BY <1>2 DEF Exception, CollectThrows, DriveForcedThrows, OffloadGridThrows,
       OffloadBatteryThrows, Throw
  <2> QED  BY <2>1 DEF ExactInv
<1>3. ASSUME NEW outcome, Order(outcome) PROVE ExactInv'
  BY <1>3, ForcedExact, OffloadGridExact, OffloadBatteryExact DEF Order
<1>4. CASE Gate
  BY <1>4, GateExact
<1>5. CASE StartBattery
  BY <1>5, StartBatteryExact
<1>6. CASE Finish
  BY <1>6 DEF Finish, Record, ExactInv
<1>7. CASE Wait
  BY <1>7 DEF Wait, ExactInv
<1>8. CASE Disturbance
  <2>1. exact' = FALSE
    BY <1>8 DEF Disturbance, Reschedule, Intervene, Vary, Weather, Rewire, Permit, Elsewhere
  <2> QED  BY <2>1 DEF ExactInv
<1>9. CASE Report \/ UNCHANGED vars
  <2>1. UNCHANGED <<on, wants, onBattery, load, weather, allowed, pc, lists, powers, changed, before,
                    exact>>
    BY <1>9 DEF Report, loop, vars, environment
  <2>2. UNCHANGED <<forceOn, forceOff, grid, battery, forcedPower, offloadedPower>>
    BY <2>1 DEF lists, powers
  <2>3. UNCHANGED <<Forced, Offloading, GridLoad, counted>>
    BY <2>1 DEF Forced, Offloading, GridLoad, counted
  <2>4. /\ ForcedAccount' <=> ForcedAccount
        /\ GridAccount' <=> GridAccount
        /\ BatteryAccount' <=> BatteryAccount
    BY <2>1, <2>2, <2>3 DEF ForcedAccount, GridAccount, BatteryAccount, GridForced, GridDecided
  <2>5. GridDecisions' <=> GridDecisions
    BY <2>1, <2>2, <2>3 DEF GridDecisions, GridDecided, MayBeOn, SurelyOn, Predicted, LoadBefore
  <2> QED  BY <2>1, <2>2, <2>4, <2>5 DEF ExactInv
<1> QED
  BY <1>1, <1>2, <1>3, <1>4, <1>5, <1>6, <1>7, <1>8, <1>9 DEF Next, Manager

LEMMA ExactInvariant == Spec => [](TypeInv /\ ExactInv)
<1>1. Init => ExactInv
  BY DEF Init, ExactInv
<1> QED  BY <1>1, TypesInvariant, ExactStep, PTL DEF Spec

\* What an iteration decides is right, for any number of devices, any power and any
\* thresholds: on the grid it fits and keeps to the priorities, on the battery it stays
\* within the maximum, since the account the algorithms keep is that of the devices
\* that are on.
THEOREM IterationsDecideRightly == Spec => []DecisionsAreRight
<1>1. TypeInv /\ ExactInv => DecisionsAreRight
  <2> SUFFICES ASSUME TypeInv, ExactInv, exact PROVE DecisionsAreRight
    BY DEF DecisionsAreRight
  <2>1. ASSUME pc = "grid", grid = {} PROVE GridFits /\ PriorityKept
    <3>1. GridAccount /\ GridDecisions
      BY <2>1 DEF ExactInv
    <3>2. ASSUME GridLoad \cap Offloading # {} PROVE MayBeOn(Total(counted, GridLoad))
      <4>1. \A e \in Devices : wants[e] # "SKIP" <=> e \in Forced \cup Offloading
        BY WantsAre DEF TypeInv
      <4>2. on \subseteq Devices
        BY DEF TypeInv, TypeOK
      <4>3. GridLoad = GridForced \cup GridDecided /\ GridDecided # {}
        BY <2>1, <3>2, <4>1, <4>2 DEF GridLoad, GridForced, GridDecided
      <4>4. GridForced \cap GridDecided = {}
        BY WantsAre DEF TypeInv, GridForced, GridDecided
      <4>5. Total(counted, GridLoad) = forcedPower + offloadedPower
        BY <3>1, <4>3, <4>4, Powers, TotalUnion DEF GridAccount, TypeInv
      <4> QED  BY <3>1, <4>3, <4>5 DEF GridDecisions
    <3>3. PriorityKept
      BY <2>1, <3>1 DEF GridDecisions, PriorityKept
    <3> QED  BY <3>2, <3>3 DEF GridFits
  <2>2. ASSUME pc = "battery", battery = {}, on \cap onBattery \cap Offloading # {}
        PROVE  allowed /\ Base + Total(counted, on \cap onBattery) < BatteryMax
    <3>1. BatteryAccount
      BY <2>2 DEF ExactInv
    <3>2. battery \cap on = {} /\ (on \cap onBattery \cap Offloading) \ battery # {}
      BY <2>2
    <3>3. forcedPower + offloadedPower = Base + Total(counted, on \cap onBattery)
      <4>1. forcedPower \in Int /\ offloadedPower \in Int /\ Total(counted, {}) = 0
        BY Powers, TotalNone DEF TypeInv, TypeOK
      <4> QED  BY <3>1, <3>2, <4>1 DEF BatteryAccount
    <3> QED  BY <3>1, <3>2, <3>3 DEF BatteryAccount
  <2> QED  BY <2>1, <2>2 DEF DecisionsAreRight, BatteryFits
<1> QED  BY <1>1, ExactInvariant, PTL

=============================================================================
