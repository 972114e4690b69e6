--------------------- MODULE ImuPreintegration_proofs ---------------------
(***************************************************************************)
(* For every ResetKey and every order of measurements, corrections and     *)
(* failures: the optimizer of IMUPreintegration holds the keys 0, 1, 2,    *)
(* ... once each and key is the next one; every measurement counts once,   *)
(* for as long as it lasted; a prediction continues the last correction    *)
(* with what that correction did not use, none of it for longer than it    *)
(* lasted; and what TransformFusion publishes reaches from the LiDAR       *)
(* odometry to the newest IMU odometry.                                    *)
(***************************************************************************)
EXTENDS ImuOdometry, WellFoundedInduction, TLAPS

(* The inductive invariant.  What GraphIsAChain leaves out: outside of a     *)
(* session the graph may hold any number of keys, as nothing is added to it  *)
(* before it starts afresh; and key never passes ResetKey, so that the test  *)
(* for equality cannot be jumped over.                                       *)
IInv ==
    /\ graph \in Seq(Nat)
    /\ key \in 1..ResetKey
    /\ systemInitialized \in BOOLEAN
    /\ GraphIsAChain

(* GraphNow holds 0 .. KeyNow - 1: starting afresh keeps the chain *)
LEMMA FreshGraphIsAChain ==
    ASSUME IInv, systemInitialized
    PROVE  /\ KeyNow \in 1..(ResetKey - 1)
           /\ GraphNow \in Seq(Nat) /\ Len(GraphNow) = KeyNow
           /\ \A i \in 1..Len(GraphNow) : GraphNow[i] = i - 1
<1>1. CASE FreshGraph
  BY <1>1, ConstantsAssumption DEF KeyNow, GraphNow
<1>2. CASE ~FreshGraph
  BY <1>2, ConstantsAssumption DEF KeyNow, GraphNow, IInv, GraphIsAChain, FreshGraph
<1>. QED BY <1>1, <1>2

(* One key more at the end of a chain *)
LEMMA AppendKeepsChain ==
    ASSUME NEW q \in Seq(Nat), \A i \in 1..Len(q) : q[i] = i - 1
    PROVE  /\ Append(q, Len(q)) \in Seq(Nat)
           /\ Len(Append(q, Len(q))) = Len(q) + 1
           /\ \A i \in 1..(Len(q) + 1) : Append(q, Len(q))[i] = i - 1
OBVIOUS

(* What AddFactor does to the graph *)
LEMMA AddFactorExtendsChain ==
    ASSUME IInv, systemInitialized, NEW c \in Stamp, AddFactor(c)
    PROVE  /\ KeyNow \in 1..(ResetKey - 1)
           /\ graph' \in Seq(Nat) /\ Len(graph') = KeyNow + 1
           /\ \A i \in DOMAIN graph' : graph'[i] = i - 1
<1>1. graph' = Append(GraphNow, Len(GraphNow))
  BY FreshGraphIsAChain DEF AddFactor
<1>2. graph' \in Seq(Nat) /\ Len(graph') = KeyNow + 1
      /\ \A i \in 1..(KeyNow + 1) : graph'[i] = i - 1
  BY <1>1, FreshGraphIsAChain, AppendKeepsChain
<1>3. DOMAIN graph' = 1..(KeyNow + 1)
  BY <1>2
<1>. QED BY <1>2, <1>3, FreshGraphIsAChain

LEMMA InitEstablishes == Init => IInv
<1>. SUFFICES ASSUME Init PROVE IInv
  OBVIOUS
<1>1. graph = <<>> /\ key = 1 /\ systemInitialized = FALSE
  BY DEF Init
<1>2. 1 \in 1..ResetKey
  BY ConstantsAssumption
<1>3. <<>> \in Seq(Nat) /\ DOMAIN <<>> = {}
  OBVIOUS
<1>. QED BY <1>1, <1>2, <1>3, Zenon DEF IInv, GraphIsAChain

LEMMA StepPreserves == IInv /\ [Next]_vars => IInv'
<1>. SUFFICES ASSUME IInv, [Next]_vars PROVE IInv'
  OBVIOUS
<1>1. CASE UNCHANGED vars
  BY <1>1 DEF vars, IInv, GraphIsAChain
<1>2. CASE Next
  <2>. PICK t \in Stamp : ImuHandler(t) \/ OdometryHandler(t)
    BY <1>2 DEF Next
  <2>1. CASE ImuHandler(t)
    BY <2>1 DEF ImuHandler, IInv, GraphIsAChain
  <2>2. CASE IgnoreCorrection
    BY <2>2 DEF IgnoreCorrection, IInv, GraphIsAChain
  <2>3. CASE Initialize(t)
    <3>1. graph' = <<0>> /\ key' = 1 /\ systemInitialized'
      BY <2>3 DEF Initialize
    <3>2. 1 \in 1..ResetKey
      BY ConstantsAssumption
    <3>3. <<0>> \in Seq(Nat) /\ Len(<<0>>) = 1 /\ \A i \in DOMAIN <<0>> : <<0>>[i] = i - 1
      OBVIOUS
    <3>4. systemInitialized' \in BOOLEAN
      BY <2>3 DEF Initialize
    <3>. QED BY <3>1, <3>2, <3>3, <3>4, Zenon DEF IInv, GraphIsAChain
  <2>4. CASE Correct(t)
    <3>1. systemInitialized /\ AddFactor(t) /\ key' = KeyNow + 1
          /\ systemInitialized' \in BOOLEAN
      BY <2>4 DEF Correct, IInv
    <3>2. KeyNow \in 1..(ResetKey - 1) /\ graph' \in Seq(Nat) /\ Len(graph') = KeyNow + 1
          /\ \A i \in DOMAIN graph' : graph'[i] = i - 1
      BY <3>1, AddFactorExtendsChain
    <3>3. key' \in 1..ResetKey /\ Len(graph') = key'
      BY <3>1, <3>2, ConstantsAssumption
    <3>. QED BY <3>1, <3>2, <3>3, Zenon DEF IInv, GraphIsAChain
  <2>5. CASE CorrectionFails(t)
    <3>1. systemInitialized /\ AddFactor(t) /\ key' = KeyNow /\ systemInitialized' = FALSE
      BY <2>5 DEF CorrectionFails, ResetParams, ResetSystemInitialized
    <3>2. KeyNow \in 1..(ResetKey - 1) /\ graph' \in Seq(Nat)
          /\ \A i \in DOMAIN graph' : graph'[i] = i - 1
      BY <3>1, AddFactorExtendsChain
    <3>3. key' \in 1..ResetKey
      BY <3>1, <3>2, ConstantsAssumption
    <3>. QED BY <3>1, <3>2, <3>3, Zenon DEF IInv, GraphIsAChain
  <2>. QED BY <2>1, <2>2, <2>3, <2>4, <2>5 DEF OdometryHandler
<1>. QED BY <1>1, <1>2

(* In every reachable state the optimizer holds the keys below key, each     *)
(* once: what odometryHandler refers to is there, and ISAM2 is never given a *)
(* key it has.                                                               *)
THEOREM OptimizerKeysAreAChain == Spec => []GraphIsAChain
<1>1. IInv => GraphIsAChain
  BY DEF IInv
<1>. QED BY InitEstablishes, StepPreserves, <1>1, PTL DEF Spec
-----------------------------------------------------------------------------
(* The queues.  A set of numbers that is not empty has a least one.          *)
LEMMA Least ==
    ASSUME NEW S, S \subseteq Nat, S # {}
    PROVE  Min(S) \in S /\ \A k \in S : Min(S) <= k
<1>. DEFINE R == {ss \in Nat \X Nat : ss[1] < ss[2]}
<1>1. IsWellFoundedOn(R, Nat)
  BY NatLessThanWellFounded DEF OpToRel
<1>2. \E m \in S : \A k \in S : ~(<<k, m>> \in R)
  <2>. HIDE DEF R
  <2>. QED BY <1>1, WFMin
<1>3. PICK m \in S : \A k \in S : ~(<<k, m>> \in R)
  BY <1>2
<1>4. ASSUME NEW k \in S PROVE m <= k
  <2>1. k \in Nat /\ m \in Nat /\ ~(<<k, m>> \in R)
    BY <1>3
  <2>2. ~(k < m)
    BY <2>1
  <2>. QED BY <2>1, <2>2
<1>. QED BY <1>4 DEF Min

LEMMA StampsAreNumbers ==
    /\ Stamp \subseteq Nat
    /\ \A q \in Seq(Stamp) : /\ DOMAIN q = 1..Len(q) /\ Len(q) \in Nat
                             /\ \A i \in 1..Len(q) : q[i] \in Stamp /\ q[i] \in Nat
<1>1. Stamp \subseteq Nat
  BY DEF Stamp
<1>. SUFFICES ASSUME NEW q \in Seq(Stamp)
              PROVE  /\ DOMAIN q = 1..Len(q) /\ Len(q) \in Nat
                     /\ \A i \in 1..Len(q) : q[i] \in Stamp /\ q[i] \in Nat
  BY <1>1
<1>2. \A i \in 1..Len(q) : q[i] \in Stamp
  OBVIOUS
<1>3. DOMAIN q = 1..Len(q) /\ Len(q) \in Nat
  OBVIOUS
<1>. QED BY <1>1, <1>2, <1>3, Zenon

(* CountOlder splits a queue at the correction *)
LEMMA CountOlderCounts ==
    ASSUME NEW q \in Seq(Stamp), Increasing(q), NEW c \in Stamp
    PROVE  /\ CountOlder(q, c) \in 0..Len(q)
           /\ \A i \in 1..CountOlder(q, c) : q[i] < c
           /\ \A i \in (CountOlder(q, c) + 1)..Len(q) : q[i] >= c
<1>. DEFINE stay == {i \in DOMAIN q : q[i] >= c}
<1>0. DOMAIN q = 1..Len(q) /\ Len(q) \in Nat /\ c \in Int /\ \A i \in DOMAIN q : q[i] \in Int
  BY StampsAreNumbers
<1>1. CASE stay = {}
  <2>1. CountOlder(q, c) = Len(q)
    BY <1>1 DEF CountOlder, CountBefore
  <2>2. \A i \in 1..Len(q) : q[i] < c
    BY <1>1, <1>0
  <2>. QED BY <2>1, <2>2, <1>0
<1>2. CASE stay # {}
  <2>1. Min(stay) \in stay /\ \A k \in stay : Min(stay) <= k
    <3>1. stay \subseteq Nat
      BY <1>0
    <3>. HIDE DEF stay
    <3>. QED BY <1>2, <3>1, Least
  <2>2. CountOlder(q, c) = Min(stay) - 1
    BY <1>2 DEF CountOlder, CountBefore
  <2>3. PICK m \in stay : CountOlder(q, c) = m - 1 /\ \A k \in stay : m <= k
    BY <2>1, <2>2
  <2>4. m \in 1..Len(q) /\ q[m] >= c
    BY <2>3, <1>0
  <2>5. \A i \in 1..(m - 1) : q[i] < c
    BY <2>3, <2>4, <1>0
  <2>6. \A i \in m..Len(q) : q[i] >= c
    <3>. SUFFICES ASSUME NEW i \in m..Len(q) PROVE q[i] >= c
      OBVIOUS
    <3>1. i = m \/ q[m] < q[i]
      BY <2>4, <1>0 DEF Increasing
    <3>. QED BY <3>1, <2>4, <1>0
  <2>7. (CountOlder(q, c) + 1) = m /\ CountOlder(q, c) \in 0..Len(q)
    BY <2>3, <2>4
  <2>. QED BY <2>3, <2>5, <2>6, <2>7
<1>. QED BY <1>1, <1>2

(* What a correction pops from a queue that holds the end of r, from d + 1   *)
(* on, is what r holds from there to e; what stays is not older.             *)
PoppedTo(r, d, q, c, e) ==
    /\ Newer(q, c) \in Seq(Stamp) /\ Len(Newer(q, c)) = Len(r) - e
    /\ \A i \in 1..(Len(r) - e) : Newer(q, c)[i] = r[i + e]
    /\ \A i \in 1..e : r[i] < c
    /\ \A i \in (e + 1)..Len(r) : r[i] >= c
    /\ Older(q, c) \in Seq(Stamp) /\ Len(Older(q, c)) = e - d
    /\ \A i \in 1..(e - d) : Older(q, c)[i] = r[i + d]
    /\ \A x : LastPopped(q, c, x) = IF e = d THEN x ELSE r[e]

LEMMA Popped ==
    ASSUME NEW r \in Seq(Stamp), Increasing(r), NEW q \in Seq(Stamp), NEW d \in Nat,
           Len(q) = Len(r) - d, \A i \in 1..Len(q) : q[i] = r[i + d],
           NEW c \in Stamp, \A i \in 1..d : r[i] < c
    PROVE  \E e \in d..Len(r) : PoppedTo(r, d, q, c, e)
<1>. DEFINE n == CountOlder(q, c)
            e == d + n
<1>0. /\ Len(q) \in Nat /\ Len(r) \in Nat /\ c \in Nat
      /\ \A i \in 1..Len(q) : q[i] \in Nat
      /\ \A i \in 1..Len(r) : r[i] \in Nat
  BY StampsAreNumbers
<1>1. Increasing(q)
  <2>. SUFFICES ASSUME NEW i \in DOMAIN q, NEW j \in DOMAIN q, i < j PROVE q[i] < q[j]
    BY DEF Increasing
  <2>1. DOMAIN q = 1..Len(q) /\ DOMAIN r = 1..Len(r)
    BY StampsAreNumbers
  <2>2. i + d \in DOMAIN r /\ j + d \in DOMAIN r /\ i + d < j + d
    <3>1. Len(q) \in Nat /\ Len(r) \in Nat
      BY <1>0
    <3>. QED BY <2>1, <3>1
  <2>3. r[i + d] < r[j + d]
    BY <2>2, Zenon DEF Increasing
  <2>4. q[i] = r[i + d] /\ q[j] = r[j + d]
    BY <2>1, Zenon
  <2>. QED BY <2>3, <2>4
<1>2. n \in 0..Len(q) /\ (\A i \in 1..n : q[i] < c) /\ (\A i \in (n + 1)..Len(q) : q[i] >= c)
  BY <1>1, CountOlderCounts
<1>3. /\ Newer(q, c) \in Seq(Stamp) /\ Len(Newer(q, c)) = Len(q) - n
      /\ \A i \in 1..(Len(q) - n) : Newer(q, c)[i] = q[i + n]
  <2>. HIDE DEF n
  <2>1. n \in Nat /\ n <= Len(q) /\ Len(q) \in Nat
    BY <1>2, <1>0
  <2>2. Newer(q, c) = SubSeq(q, n + 1, Len(q))
    BY DEF Newer, n
  <2>. QED BY <2>1, <2>2
<1>4. /\ Older(q, c) \in Seq(Stamp) /\ Len(Older(q, c)) = n
      /\ \A i \in 1..n : Older(q, c)[i] = q[i]
  <2>. HIDE DEF n
  <2>. QED BY <1>2, <1>0 DEF Older, n
<1>. HIDE DEF n
<1>5. e \in d..Len(r) /\ e - d = n /\ Len(q) - n = Len(r) - e
  BY <1>2, <1>0
<1>6. \A i \in 1..(Len(r) - e) : Newer(q, c)[i] = r[i + e]
  BY <1>3, <1>2, <1>0
<1>7. \A i \in 1..e : r[i] < c
  <2>. SUFFICES ASSUME NEW i \in 1..e PROVE r[i] < c
    OBVIOUS
  <2>1. CASE i <= d
    BY <2>1, <1>2
  <2>2. CASE i > d
    BY <2>2, <1>2, <1>0, i - d \in 1..n, q[i - d] = r[(i - d) + d]
  <2>. QED BY <2>1, <2>2, <1>2
<1>8. \A i \in (e + 1)..Len(r) : r[i] >= c
  <2>. SUFFICES ASSUME NEW i \in (e + 1)..Len(r) PROVE r[i] >= c
    OBVIOUS
  <2>0. n \in Nat /\ Len(q) \in Nat /\ Len(r) \in Nat
    BY <1>2, <1>0
  <2>1. i - d \in (n + 1)..Len(q) /\ i - d \in 1..Len(q) /\ (i - d) + d = i
    BY <2>0
  <2>2. q[i - d] >= c
    BY <2>1, <1>2, Zenon
  <2>3. q[i - d] = r[(i - d) + d]
    BY <2>1, Zenon
  <2>. QED BY <2>1, <2>2, <2>3
<1>9. \A i \in 1..(e - d) : Older(q, c)[i] = r[i + d]
  <2>. SUFFICES ASSUME NEW i \in 1..(e - d) PROVE Older(q, c)[i] = r[i + d]
    OBVIOUS
  <2>1. i \in 1..n /\ i \in 1..Len(q)
    <3>1. n \in Nat /\ n <= Len(q) /\ Len(q) \in Nat /\ e - d = n
      BY <1>2, <1>0, <1>5
    <3>. QED BY <3>1
  <2>2. Older(q, c)[i] = q[i]
    BY <2>1, <1>4, Zenon
  <2>3. q[i] = r[i + d]
    BY <2>1, Zenon
  <2>. QED BY <2>2, <2>3
<1>10. ASSUME NEW x PROVE LastPopped(q, c, x) = IF e = d THEN x ELSE r[e]
  <2>1. CASE n = 0
    <3>1. Older(q, c) = <<>>
      BY <2>1, <1>4
    <3>. QED BY <3>1, <2>1 DEF LastPopped
  <2>2. CASE n # 0
    <3>1. Older(q, c) # <<>> /\ Last(Older(q, c)) = q[n] /\ q[n] = r[n + d] /\ e # d
      BY <2>2, <1>4, <1>2, <1>0 DEF Last
    <3>2. n + d = e
      BY <1>2
    <3>. QED BY <3>1, <3>2 DEF LastPopped
  <2>. QED BY <2>1, <2>2
<1>. QED
  <2>. HIDE DEF e
  <2>1. e \in d..Len(r)
    BY <1>5
  <2>. WITNESS e \in d..Len(r)
  <2>. QED BY <1>3, <1>4, <1>5, <1>6, <1>7, <1>8, <1>9, <1>10 DEF PoppedTo
(* Queue q holds the end of r; what is gone from it is older than t *)
Gone(q, r) == Len(r) - Len(q)

Rest(q, r, t) ==
    /\ q \in Seq(Stamp)
    /\ Len(q) <= Len(r)
    /\ \A i \in 1..Len(q) : q[i] = r[i + Gone(q, r)]
    /\ \A i \in 1..Gone(q, r) : r[i] < t

LEMMA RestPopped ==
    ASSUME NEW r \in Seq(Stamp), Increasing(r), NEW t \in Nat, NEW q, Rest(q, r, t),
           NEW c \in Stamp, c > t
    PROVE  \E e \in Gone(q, r)..Len(r) : PoppedTo(r, Gone(q, r), q, c, e)
<1>1. q \in Seq(Stamp)
  BY DEF Rest
<1>2. c \in Nat /\ Len(q) \in Nat /\ Len(r) \in Nat /\ \A i \in 1..Len(r) : r[i] \in Nat
  BY <1>1, StampsAreNumbers
<1>3. Gone(q, r) \in Nat /\ Gone(q, r) <= Len(r) /\ Len(q) = Len(r) - Gone(q, r)
  BY <1>2 DEF Rest, Gone
<1>4. \A i \in 1..Len(q) : q[i] = r[i + Gone(q, r)]
  BY DEF Rest
<1>5. \A i \in 1..Gone(q, r) : r[i] < c
  <2>. SUFFICES ASSUME NEW i \in 1..Gone(q, r) PROVE r[i] < c
    OBVIOUS
  <2>1. r[i] < t /\ r[i] \in Nat
    BY <1>2, <1>3 DEF Rest
  <2>. QED BY <2>1, <1>2
<1>. QED BY <1>1, <1>3, <1>4, <1>5, Popped, Zenon

(* What a correction, and what a measurement, does to a queue *)
LEMMA NewerIsRest ==
    ASSUME NEW r \in Seq(Stamp), Increasing(r), NEW t \in Nat, NEW q, Rest(q, r, t),
           NEW c \in Stamp, c > t
    PROVE  Rest(Newer(q, c), r, c)
<1>1. PICK e \in Gone(q, r)..Len(r) : PoppedTo(r, Gone(q, r), q, c, e)
  BY RestPopped
<1>2. Gone(q, r) \in Nat /\ Len(r) \in Nat
  BY StampsAreNumbers DEF Rest, Gone
<1>3. Gone(Newer(q, c), r) = e
  BY <1>1, <1>2 DEF Gone, PoppedTo
<1>. QED BY <1>1, <1>2, <1>3 DEF Rest, PoppedTo

LEMMA RestLater ==
    ASSUME NEW r \in Seq(Stamp), NEW t \in Nat, NEW q, Rest(q, r, t), NEW c \in Nat, c > t
    PROVE  Rest(q, r, c)
<1>1. Len(r) \in Nat /\ Len(q) \in Nat /\ \A i \in 1..Len(r) : r[i] \in Nat
  BY StampsAreNumbers DEF Rest
<1>. QED BY <1>1 DEF Rest, Gone

LEMMA RestAppend ==
    ASSUME NEW r \in Seq(Stamp), NEW t \in Nat, NEW q, Rest(q, r, t), NEW s \in Stamp
    PROVE  /\ Rest(Append(q, s), Append(r, s), t)
           /\ Gone(Append(q, s), Append(r, s)) = Gone(q, r)
<1>1. q \in Seq(Stamp) /\ Len(r) \in Nat /\ Len(q) \in Nat
  BY StampsAreNumbers DEF Rest
<1>2. Append(q, s) \in Seq(Stamp) /\ Len(Append(q, s)) = Len(q) + 1
      /\ (\A i \in 1..Len(q) : Append(q, s)[i] = q[i]) /\ Append(q, s)[Len(q) + 1] = s
  BY <1>1
<1>3. Append(r, s) \in Seq(Stamp) /\ Len(Append(r, s)) = Len(r) + 1
      /\ (\A i \in 1..Len(r) : Append(r, s)[i] = r[i]) /\ Append(r, s)[Len(r) + 1] = s
  BY <1>1
<1>4. Gone(Append(q, s), Append(r, s)) = Gone(q, r) /\ Gone(q, r) \in Nat
      /\ Gone(q, r) <= Len(r) /\ Len(q) + Gone(q, r) = Len(r)
  BY <1>1, <1>2, <1>3 DEF Gone, Rest
<1>5. ASSUME NEW i \in 1..(Len(q) + 1) PROVE Append(q, s)[i] = Append(r, s)[i + Gone(q, r)]
  <2>1. CASE i = Len(q) + 1
    <3>1. i + Gone(q, r) = Len(r) + 1
      BY <2>1, <1>1, <1>4
    <3>. QED BY <3>1, <2>1, <1>2, <1>3
  <2>2. CASE i \in 1..Len(q)
    <3>1. q[i] = r[i + Gone(q, r)]
      BY <2>2 DEF Rest
    <3>2. i + Gone(q, r) \in 1..Len(r)
      BY <2>2, <1>1, <1>4
    <3>. QED BY <3>1, <3>2, <2>2, <1>2, <1>3
  <2>3. i = Len(q) + 1 \/ i \in 1..Len(q)
    BY <1>1
  <2>. QED BY <2>1, <2>2, <2>3, Zenon
<1>6. ASSUME NEW i \in 1..Gone(q, r) PROVE Append(r, s)[i] < t
  <2>1. r[i] < t /\ i \in 1..Len(r)
    BY <1>1, <1>4 DEF Rest
  <2>. QED BY <2>1, <1>3
<1>. QED BY <1>1, <1>2, <1>3, <1>4, <1>5, <1>6 DEF Rest

LEMMA IncreasingAppend ==
    ASSUME NEW r \in Seq(Stamp), Increasing(r), NEW s \in Stamp, r # <<>> => s > Last(r)
    PROVE  Append(r, s) \in Seq(Stamp) /\ Increasing(Append(r, s))
<1>1. DOMAIN r = 1..Len(r) /\ Len(r) \in Nat /\ s \in Nat
      /\ \A i \in 1..Len(r) : r[i] \in Nat
  BY StampsAreNumbers
<1>2. Append(r, s) \in Seq(Stamp) /\ DOMAIN Append(r, s) = 1..(Len(r) + 1)
      /\ (\A i \in 1..Len(r) : Append(r, s)[i] = r[i]) /\ Append(r, s)[Len(r) + 1] = s
  BY <1>1
<1>3. ASSUME NEW i \in 1..Len(r) PROVE r[i] < s
  <2>1. r # <<>> /\ Last(r) = r[Len(r)] /\ Len(r) \in 1..Len(r)
    BY <1>1 DEF Last
  <2>2. s > r[Len(r)] /\ r[Len(r)] \in Nat /\ r[i] \in Nat
    BY <2>1, <1>1
  <2>3. CASE i < Len(r)
    <3>1. i \in DOMAIN r /\ Len(r) \in DOMAIN r
      BY <2>1, <1>1
    <3>2. r[i] < r[Len(r)]
      BY <3>1, <2>3, Zenon DEF Increasing
    <3>. QED BY <3>2, <2>2, <1>1
  <2>4. CASE i = Len(r)
    BY <2>4, <2>2
  <2>5. i < Len(r) \/ i = Len(r)
    <3>1. Len(r) \in Nat
      BY <1>1
    <3>. QED BY <3>1
  <2>. QED BY <2>3, <2>4, <2>5, Zenon
<1>4. ASSUME NEW i \in 1..(Len(r) + 1), NEW j \in 1..(Len(r) + 1), i < j
      PROVE  Append(r, s)[i] < Append(r, s)[j]
  <2>1. i \in 1..Len(r)
    BY <1>1, <1>4
  <2>2. CASE j = Len(r) + 1
    BY <2>1, <2>2, <1>2, <1>3
  <2>3. CASE j \in 1..Len(r)
    BY <2>1, <2>3, <1>1, <1>2, <1>4 DEF Increasing
  <2>. QED BY <2>2, <2>3, <1>1
<1>. QED BY <1>2, <1>4 DEF Increasing

(* The queues of the code *)
Queues ==
    /\ received \in Seq(Stamp) /\ Increasing(received)
    /\ odomTime \in Nat
    /\ Rest(imuQueOpt, received, odomTime)
    /\ Rest(imuQueImu, received, odomTime)

LEMMA QueuesHold ==
    ASSUME Queues, NEW t \in Stamp, ImuHandler(t) \/ OdometryHandler(t)
    PROVE  Queues'
<1>0. received \in Seq(Stamp) /\ Increasing(received) /\ odomTime \in Nat /\ t \in Nat
      /\ Rest(imuQueOpt, received, odomTime) /\ Rest(imuQueImu, received, odomTime)
  BY StampsAreNumbers DEF Queues
<1>1. CASE ImuHandler(t)
  <2>1. /\ received' = Append(received, t) /\ odomTime' = odomTime
        /\ imuQueOpt' = Append(imuQueOpt, t) /\ imuQueImu' = Append(imuQueImu, t)
        /\ received # <<>> => t > Last(received)
    BY <1>1 DEF ImuHandler
  <2>2. received' \in Seq(Stamp) /\ Increasing(received')
    BY <2>1, <1>0, IncreasingAppend
  <2>3. Rest(imuQueOpt', received', odomTime') /\ Rest(imuQueImu', received', odomTime')
    BY <2>1, <1>0, RestAppend
  <2>. QED BY <2>1, <2>2, <2>3, <1>0 DEF Queues
<1>2. CASE OdometryHandler(t)
  <2>1. odomTime' = t /\ t > odomTime /\ received' = received
        /\ imuQueOpt' \in {imuQueOpt, Newer(imuQueOpt, t)}
        /\ imuQueImu' \in {imuQueImu, Newer(imuQueImu, t)}
    BY <1>2 DEF OdometryHandler, IgnoreCorrection, Initialize, Correct, CorrectionFails,
                AddFactor, Repropagate, queues
  <2>2. \A q \in {imuQueOpt, imuQueImu} :
            Rest(q, received, t) /\ Rest(Newer(q, t), received, t)
    BY <2>1, <1>0, NewerIsRest, RestLater
  <2>3. Rest(imuQueOpt', received', odomTime') /\ Rest(imuQueImu', received', odomTime')
    BY <2>1, <2>2
  <2>. QED BY <2>1, <2>3, <1>0 DEF Queues
<1>. QED BY <1>1, <1>2

-----------------------------------------------------------------------------
(* The factors.  What was integrated is made of the first d received.        *)
Received(r, i) == Measure(IF i = 1 THEN None ELSE r[i - 1], r[i])

MadeOf(s, r, d) ==
    /\ s \in Seq(Measurement)
    /\ \A j, k \in 1..Len(s) : j < k => s[j].at < s[k].at
    /\ \A k \in 1..Len(s) : \E i \in 1..d : s[k] = Received(r, i)

LEMMA ReceivedIsMeasurement ==
    ASSUME NEW r \in Seq(Stamp), NEW i \in 1..Len(r)
    PROVE  /\ Received(r, i) \in Measurement /\ Received(r, i).at = r[i] /\ r[i] \in Nat
<1>1. r[i] \in Stamp /\ r[i] \in Nat /\ Len(r) \in Nat
  BY StampsAreNumbers
<1>2. CASE i = 1
  BY <1>1, <1>2 DEF Received, Measure, Measurement
<1>3. CASE i # 1
  <2>1. i - 1 \in 1..Len(r)
    BY <1>3, <1>1
  <2>2. r[i - 1] \in Stamp
    BY <2>1, StampsAreNumbers
  <2>. QED BY <1>1, <1>3, <2>2 DEF Received, Measure, Measurement
<1>. QED BY <1>2, <1>3

LEMMA FunctionIsSeq ==
    ASSUME NEW S, NEW n \in Nat, NEW f \in [1..n -> S]
    PROVE  f \in Seq(S) /\ Len(f) = n
OBVIOUS

(* The stamp of the last that is gone *)
LastGone(r, d) == IF d = 0 THEN None ELSE r[d]

(* The measurements from d + 1 to e *)
Piece(new, r, d, e) ==
    /\ new \in Seq(Measurement) /\ Len(new) = e - d
    /\ \A i \in 1..(e - d) : new[i] = Received(r, i + d)

LEMMA IntegratedIs ==
    ASSUME NEW r \in Seq(Stamp), NEW d \in Nat, NEW e \in d..Len(r), NEW q, NEW c,
           PoppedTo(r, d, q, c, e)
    PROVE  Piece(IntegrateAll(Older(q, c), LastGone(r, d)), r, d, e)
<1>. DEFINE older == Older(q, c)
            last == LastGone(r, d)
<1>a. /\ older \in Seq(Stamp) /\ Len(older) = e - d
      /\ \A i \in 1..(e - d) : older[i] = r[i + d]
  BY DEF PoppedTo
<1>b. last = IF d = 0 THEN None ELSE r[d]
  BY DEF LastGone
<1>. HIDE DEF older, last
<1>0. Len(r) \in Nat /\ e \in Nat /\ e - d \in Nat /\ DOMAIN older = 1..(e - d)
  BY <1>a, StampsAreNumbers
<1>. DEFINE m(i) == Measure(IF i = 1 THEN last ELSE older[i - 1], older[i])
<1>1. ASSUME NEW i \in 1..(e - d) PROVE m(i) = Received(r, i + d)
  <2>1. older[i] = r[i + d] /\ (i # 1 => older[i - 1] = r[(i + d) - 1])
    <3>1. i # 1 => i - 1 \in 1..(e - d) /\ (i - 1) + d = (i + d) - 1
      BY <1>0
    <3>. QED BY <3>1, <1>a
  <2>2. i = 1 => (i + d) - 1 = d
    BY <1>0
  <2>3. i + d = 1 <=> (i = 1 /\ d = 0)
    BY <1>0
  <2>. QED BY <2>1, <2>2, <2>3, <1>b DEF Received
<1>. HIDE DEF m
<1>2. IntegrateAll(older, last) = [i \in 1..(e - d) |-> m(i)]
  BY <1>0, Zenon DEF IntegrateAll, m
<1>3. ASSUME NEW i \in 1..(e - d) PROVE m(i) \in Measurement
  <2>1. i + d \in 1..Len(r)
    BY <1>0
  <2>. QED BY <1>1, <2>1, ReceivedIsMeasurement
<1>4. IntegrateAll(older, last) \in [1..(e - d) -> Measurement]
  BY <1>2, <1>3
<1>5. /\ IntegrateAll(older, last) \in Seq(Measurement)
      /\ Len(IntegrateAll(older, last)) = e - d
  BY <1>0, <1>4, FunctionIsSeq
<1>6. \A i \in 1..(e - d) : IntegrateAll(older, last)[i] = Received(r, i + d)
  BY <1>1, <1>2
<1>. QED BY <1>5, <1>6 DEF Piece, older, last

LEMMA ConcatIsSeq ==
    ASSUME NEW S, NEW a \in Seq(S), NEW b \in Seq(S)
    PROVE  a \o b \in Seq(S) /\ Len(a \o b) = Len(a) + Len(b)
OBVIOUS

(* What s has become when the measurements from d + 1 to e were added        *)
Grown(all, s, r, d, e) ==
    /\ MadeOf(all, r, e)
    /\ \A i \in 1..e : i > d => \E k \in 1..Len(all) : all[k].at = r[i]
    /\ \A k \in 1..Len(s) : k \in 1..Len(all) /\ all[k] = s[k]

LEMMA MadeOfGrows ==
    ASSUME NEW r \in Seq(Stamp), Increasing(r), NEW d \in Nat, NEW e \in d..Len(r),
           NEW s, MadeOf(s, r, d), NEW new, Piece(new, r, d, e)
    PROVE  Grown(s \o new, s, r, d, e)
<1>. DEFINE all == s \o new
<1>0. /\ Len(r) \in Nat /\ e \in Nat /\ e - d \in Nat /\ DOMAIN r = 1..Len(r)
      /\ s \in Seq(Measurement) /\ Len(s) \in Nat
      /\ new \in Seq(Measurement) /\ Len(new) = e - d
      /\ \A i \in 1..(e - d) : new[i] = Received(r, i + d)
  BY StampsAreNumbers DEF MadeOf, Piece
<1>1. /\ all \in Seq(Measurement) /\ Len(all) = Len(s) + (e - d)
      /\ \A k \in 1..Len(s) : all[k] = s[k]
      /\ \A i \in 1..(e - d) : all[Len(s) + i] = new[i]
  <2>1. all \in Seq(Measurement) /\ Len(all) = Len(s) + (e - d)
    BY <1>0, ConcatIsSeq
  <2>2. \A k \in 1..Len(s) : all[k] = s[k]
    BY <1>0
  <2>3. \A i \in 1..(e - d) : all[Len(s) + i] = new[i]
    BY <1>0
  <2>. QED BY <2>1, <2>2, <2>3
<1>. HIDE DEF all
<1>2. ASSUME NEW k \in 1..Len(all)
      PROVE  \E i \in 1..e : /\ all[k] = Received(r, i) /\ all[k].at = r[i]
                             /\ IF k <= Len(s) THEN i <= d ELSE i = (k - Len(s)) + d
  <2>1. CASE k <= Len(s)
    <3>1. k \in 1..Len(s)
      BY <2>1, <1>0
    <3>2. PICK i \in 1..d : s[k] = Received(r, i)
      BY <3>1 DEF MadeOf
    <3>3. i \in 1..e /\ i <= d /\ i \in 1..Len(r)
      BY <1>0
    <3>4. all[k] = Received(r, i) /\ all[k].at = r[i]
      BY <3>1, <3>2, <3>3, <1>1, ReceivedIsMeasurement
    <3>. QED BY <3>3, <3>4, <2>1
  <2>2. CASE ~(k <= Len(s))
    <3>. DEFINE i == (k - Len(s)) + d
    <3>1. k - Len(s) \in 1..(e - d) /\ i \in 1..e /\ i \in 1..Len(r) /\ Len(s) + (k - Len(s)) = k
      BY <2>2, <1>0, <1>1
    <3>2. all[k] = Received(r, i)
      BY <3>1, <1>0, <1>1
    <3>3. all[k].at = r[i]
      BY <3>1, <3>2, ReceivedIsMeasurement
    <3>. QED BY <3>1, <3>2, <3>3, <2>2
  <2>. QED BY <2>1, <2>2
<1>3. ASSUME NEW j \in 1..Len(all), NEW k \in 1..Len(all), j < k
      PROVE  all[j].at < all[k].at
  <2>1. CASE k <= Len(s)
    <3>1. j \in 1..Len(s) /\ k \in 1..Len(s)
      BY <2>1, <1>0, <1>1, <1>3
    <3>. QED BY <3>1, <1>1, <1>3 DEF MadeOf
  <2>2. CASE ~(k <= Len(s))
    <3>1. PICK i \in 1..e : all[k].at = r[i] /\ i = (k - Len(s)) + d
      BY <2>2, <1>2
    <3>2. PICK h \in 1..e : /\ all[j].at = r[h]
                            /\ IF j <= Len(s) THEN h <= d ELSE h = (j - Len(s)) + d
      BY <1>2
    <3>3. h < i /\ h \in DOMAIN r /\ i \in DOMAIN r
      <4>1. /\ Len(r) \in Nat /\ Len(s) \in Nat /\ Len(all) = Len(s) + (e - d)
            /\ DOMAIN r = 1..Len(r)
        BY <1>0, <1>1
      <4>2. Len(all) \in Nat /\ j \in Nat /\ k \in Nat
        BY <4>1
      <4>3. CASE j <= Len(s)
        <5>1. h <= d /\ i = (k - Len(s)) + d
          BY <3>1, <3>2, <4>3
        <5>. QED BY <5>1, <4>1, <4>2, <2>2
      <4>4. CASE ~(j <= Len(s))
        <5>1. h = (j - Len(s)) + d /\ i = (k - Len(s)) + d
          BY <3>1, <3>2, <4>4
        <5>. QED BY <5>1, <4>1, <4>2, <1>3
      <4>. QED BY <4>3, <4>4
    <3>4. r[h] < r[i]
      BY <3>3, Zenon DEF Increasing
    <3>. QED BY <3>1, <3>2, <3>4
  <2>. QED BY <2>1, <2>2
<1>4. ASSUME NEW i \in 1..e, i > d PROVE \E k \in 1..Len(all) : all[k].at = r[i]
  <2>1. i - d \in 1..(e - d) /\ Len(s) + (i - d) \in 1..Len(all) /\ (i - d) + d = i
        /\ i \in 1..Len(r)
    <3>1. Len(r) \in Nat /\ e \in Nat /\ Len(s) \in Nat /\ Len(all) = Len(s) + (e - d)
      BY <1>0, <1>1
    <3>. QED BY <3>1, <1>4
  <2>2. all[Len(s) + (i - d)] = Received(r, i)
    BY <2>1, <1>0, <1>1
  <2>. QED BY <2>1, <2>2, ReceivedIsMeasurement
<1>5. ASSUME NEW k \in 1..Len(s) PROVE k \in 1..Len(all) /\ all[k] = s[k]
  BY <1>0, <1>1
<1>6. MadeOf(all, r, e)
  BY <1>1, <1>2, <1>3 DEF MadeOf
<1>. QED BY <1>4, <1>5, <1>6 DEF Grown, all

(* One more received does not matter *)
LEMMA MadeOfReceived ==
    ASSUME NEW r \in Seq(Stamp), NEW d \in Nat, d <= Len(r), NEW s, MadeOf(s, r, d),
           NEW t \in Stamp
    PROVE  MadeOf(s, Append(r, t), d)
<1>1. Len(r) \in Nat /\ \A i \in 1..Len(r) : Append(r, t)[i] = r[i]
  BY StampsAreNumbers
<1>2. ASSUME NEW i \in 1..d PROVE Received(Append(r, t), i) = Received(r, i)
  <2>1. i \in 1..Len(r) /\ (i # 1 => i - 1 \in 1..Len(r))
    BY <1>1
  <2>. QED BY <2>1, <1>1 DEF Received
<1>. QED BY <1>2 DEF MadeOf

(* What has left imuQueOpt is, since the system was initialized, in factors  *)
GoneOpt == Gone(imuQueOpt, received)

Optimized(s, r, d, since) ==
    \A i \in 1..d : r[i] >= since => \E k \in 1..Len(s) : s[k].at = r[i]

Optimizer ==
    /\ imuIntegratorOpt = <<>>
    /\ lastImuT_opt = LastGone(received, GoneOpt)
    /\ MadeOf(integrated, received, GoneOpt)
    /\ systemInitialized => Optimized(integrated, received, GoneOpt, initTime)

LEMMA GoneIsNumber ==
    ASSUME NEW r \in Seq(Stamp), NEW t, NEW q, Rest(q, r, t)
    PROVE  Gone(q, r) \in Nat /\ Gone(q, r) <= Len(r)
BY StampsAreNumbers DEF Rest, Gone

(* What a correction takes from imuQueOpt *)
LEMMA OptPopped ==
    ASSUME Queues, Optimizer, NEW c \in Stamp, c > odomTime,
           imuQueOpt' = Newer(imuQueOpt, c), received' = received
    PROVE  \E e \in GoneOpt..Len(received) :
             /\ PoppedTo(received, GoneOpt, imuQueOpt, c, e)
             /\ GoneOpt' = e
             /\ LastPopped(imuQueOpt, c, lastImuT_opt) = LastGone(received, e)
<1>1. PICK e \in GoneOpt..Len(received) : PoppedTo(received, GoneOpt, imuQueOpt, c, e)
  BY RestPopped DEF Queues, GoneOpt
<1>2. GoneOpt \in Nat /\ GoneOpt <= Len(received) /\ Len(received) \in Nat
  BY GoneIsNumber, StampsAreNumbers DEF Queues, GoneOpt
<1>3. GoneOpt' = e
  BY <1>1, <1>2 DEF PoppedTo, GoneOpt, Gone
<1>4. LastPopped(imuQueOpt, c, lastImuT_opt) = LastGone(received, e)
  <2>1. LastPopped(imuQueOpt, c, lastImuT_opt)
           = IF e = GoneOpt THEN lastImuT_opt ELSE received[e]
    BY <1>1 DEF PoppedTo
  <2>. QED BY <2>1, <1>2 DEF Optimizer, LastGone
<1>. QED BY <1>1, <1>3, <1>4

LEMMA AddFactorIntegrates ==
    ASSUME Queues, Optimizer, NEW c \in Stamp, c > odomTime, AddFactor(c),
           received' = received, initTime' = initTime, systemInitialized
    PROVE  Optimizer'
<1>. DEFINE r == received
            d == GoneOpt
            last == lastImuT_opt
<1>0. r \in Seq(Stamp) /\ Increasing(r) /\ d \in Nat /\ d <= Len(r) /\ Len(r) \in Nat
  BY GoneIsNumber, StampsAreNumbers DEF Queues, GoneOpt
<1>1. /\ imuQueOpt' = Newer(imuQueOpt, c)
      /\ lastImuT_opt' = LastPopped(imuQueOpt, c, last)
      /\ integrated' = integrated \o imuIntegratorOpt \o IntegrateAll(Older(imuQueOpt, c), last)
      /\ imuIntegratorOpt' = <<>>
  BY DEF AddFactor
<1>2. PICK e \in d..Len(r) : /\ PoppedTo(r, d, imuQueOpt, c, e)
                             /\ GoneOpt' = e
                             /\ LastPopped(imuQueOpt, c, last) = LastGone(r, e)
  BY <1>1, OptPopped
<1>. DEFINE new == IntegrateAll(Older(imuQueOpt, c), last)
<1>3. Piece(new, r, d, e)
  <2>1. last = LastGone(r, d)
    BY DEF Optimizer
  <2>. HIDE DEF r, d, last
  <2>2. Piece(IntegrateAll(Older(imuQueOpt, c), LastGone(r, d)), r, d, e)
    BY <1>0, <1>2, IntegratedIs
  <2>. QED BY <2>1, <2>2
<1>4. MadeOf(integrated, r, d) /\ Optimized(integrated, r, d, initTime)
  BY DEF Optimizer
<1>5. integrated' = integrated \o new
  <2>1. integrated \in Seq(Measurement) /\ imuIntegratorOpt = <<>>
    BY <1>4 DEF MadeOf, Optimizer
  <2>2. integrated \o <<>> = integrated
    BY <2>1
  <2>. QED BY <1>1, <2>1, <2>2
<1>6. Grown(integrated', integrated, r, d, e)
  <2>. DEFINE s == integrated
  <2>. HIDE DEF r, d, new, s
  <2>1. MadeOf(s, r, d)
    BY <1>4 DEF s
  <2>2. Grown(s \o new, s, r, d, e)
    BY <1>0, <1>3, <2>1, MadeOfGrows
  <2>. QED BY <1>5, <2>2 DEF s
<1>7. Optimized(integrated', r, e, initTime)
  <2>. SUFFICES ASSUME NEW i \in 1..e, r[i] >= initTime
                PROVE  \E k \in 1..Len(integrated') : integrated'[k].at = r[i]
    BY DEF Optimized
  <2>1. CASE i > d
    BY <2>1, <1>6 DEF Grown
  <2>2. CASE ~(i > d)
    <3>1. i \in 1..d
      BY <2>2, <1>0
    <3>2. PICK k \in 1..Len(integrated) : integrated[k].at = r[i]
      BY <3>1, <1>4 DEF Optimized
    <3>. QED BY <3>2, <1>6 DEF Grown
  <2>. QED BY <2>1, <2>2
<1>8. lastImuT_opt' = LastGone(r, e)
  BY <1>1, <1>2
<1>. QED BY <1>1, <1>2, <1>6, <1>7, <1>8 DEF Optimizer, Grown

LEMMA OptimizerHolds ==
    ASSUME Queues, Optimizer, NEW t \in Stamp, ImuHandler(t) \/ OdometryHandler(t)
    PROVE  Optimizer'
<1>. DEFINE d == GoneOpt
<1>0. /\ received \in Seq(Stamp) /\ Increasing(received) /\ d \in Nat /\ d <= Len(received)
      /\ Len(received) \in Nat
  BY GoneIsNumber, StampsAreNumbers DEF Queues, GoneOpt
<1>1. CASE ImuHandler(t)
  <2>1. /\ received' = Append(received, t) /\ imuQueOpt' = Append(imuQueOpt, t)
        /\ UNCHANGED <<imuIntegratorOpt, lastImuT_opt, integrated, systemInitialized, initTime>>
    BY <1>1 DEF ImuHandler
  <2>2. GoneOpt' = d
    BY <2>1, RestAppend DEF Queues, GoneOpt
  <2>3. MadeOf(integrated, received', d)
    <3>. HIDE DEF d
    <3>. QED BY <1>0, <2>1, MadeOfReceived DEF Optimizer, d
  <2>4. \A i \in 1..d : received'[i] = received[i]
    BY <2>1, <1>0
  <2>5. LastGone(received', d) = LastGone(received, d)
    BY <2>4, <1>0 DEF LastGone
  <2>6. systemInitialized => Optimized(integrated, received', d, initTime)
    BY <2>4 DEF Optimizer, Optimized
  <2>. HIDE DEF d
  <2>. QED BY <2>1, <2>2, <2>3, <2>5, <2>6 DEF Optimizer, d
<1>2. CASE OdometryHandler(t)
  <2>1. t > odomTime
    BY <1>2 DEF OdometryHandler
  <2>2. CASE IgnoreCorrection
    BY <2>2 DEF IgnoreCorrection, queues, Optimizer, GoneOpt, Gone, MadeOf
  <2>3. CASE Initialize(t)
    <3>1. /\ imuQueOpt' = Newer(imuQueOpt, t) /\ received' = received
          /\ lastImuT_opt' = LastPopped(imuQueOpt, t, lastImuT_opt)
          /\ imuIntegratorOpt' = <<>> /\ initTime' = t /\ integrated' = integrated
      BY <2>3 DEF Initialize, LastSkipped
    <3>2. PICK e \in d..Len(received) :
             /\ PoppedTo(received, d, imuQueOpt, t, e)
             /\ GoneOpt' = e
             /\ LastPopped(imuQueOpt, t, lastImuT_opt) = LastGone(received, e)
      BY <3>1, <2>1, OptPopped
    <3>3. MadeOf(integrated, received, e)
      <4>1. MadeOf(integrated, received, d)
        BY DEF Optimizer
      <4>2. \A i \in 1..d : i \in 1..e
        BY <1>0
      <4>. QED BY <4>1, <4>2, Zenon DEF MadeOf
    <3>4. Optimized(integrated, received, e, t)
      <4>. SUFFICES ASSUME NEW i \in 1..e PROVE ~(received[i] >= t)
        BY DEF Optimized
      <4>1. received[i] < t /\ i \in 1..Len(received)
        BY <3>2, <1>0 DEF PoppedTo
      <4>2. received[i] \in Nat /\ t \in Nat
        BY <4>1, <1>0, StampsAreNumbers
      <4>. QED BY <4>1, <4>2
    <3>. QED BY <3>1, <3>2, <3>3, <3>4 DEF Optimizer
  <2>4. CASE Correct(t)
    BY <2>4, <2>1, AddFactorIntegrates DEF Correct
  <2>5. CASE CorrectionFails(t)
    BY <2>5, <2>1, AddFactorIntegrates DEF CorrectionFails, ResetParams
  <2>. QED BY <1>2, <2>2, <2>3, <2>4, <2>5 DEF OdometryHandler
<1>. QED BY <1>1, <1>2

LEMMA QueuesInvariant == Spec => [](Queues /\ Optimizer)
<1>1. ASSUME Init PROVE Queues /\ Optimizer
  <2>1. <<>> \in Seq(Stamp) /\ Len(<<>>) = 0 /\ DOMAIN <<>> = {} /\ <<>> \in Seq(Measurement)
    OBVIOUS
  <2>2. Rest(<<>>, <<>>, 0) /\ Gone(<<>>, <<>>) = 0
    BY <2>1 DEF Rest, Gone
  <2>3. Increasing(<<>>)
    BY <2>1 DEF Increasing
  <2>4. MadeOf(<<>>, <<>>, 0)
    BY <2>1 DEF MadeOf
  <2>5. Queues
    BY <1>1, <2>1, <2>2, <2>3 DEF Init, Queues
  <2>6. Optimizer
    BY <1>1, <2>2, <2>4 DEF Init, Optimizer, GoneOpt, LastGone
  <2>. QED BY <2>5, <2>6
<1>2. ASSUME Queues /\ Optimizer, [Next]_vars PROVE (Queues /\ Optimizer)'
  <2>1. CASE UNCHANGED vars
    <3>1. Queues'
      BY <1>2, <2>1 DEF vars, queues, Queues
    <3>2. Optimizer'
      BY <1>2, <2>1 DEF vars, queues, Optimizer, GoneOpt, Gone, MadeOf
    <3>. QED BY <3>1, <3>2
  <2>2. CASE Next
    BY <1>2, <2>2, QueuesHold, OptimizerHolds DEF Next
  <2>. QED BY <1>2, <2>1, <2>2
<1>. QED BY <1>1, <1>2, PTL DEF Spec

(* Each one received lasts since the one before it *)
LEMMA LastsSinceBefore ==
    ASSUME received \in Seq(Stamp), Increasing(received), NEW i \in 1..Len(received),
           NEW m, m.at = received[i], m.from = Received(received, i).from
    PROVE  m.from = Before(m.at)
<1>. DEFINE r == received
<1>0. Len(r) \in Nat /\ DOMAIN r = 1..Len(r)
  BY StampsAreNumbers
<1>1. ASSUME NEW j \in DOMAIN r, r[j] = r[i] PROVE j = i
  <2>1. r[i] \in Nat
    BY StampsAreNumbers
  <2>2. (i < j => r[i] < r[j]) /\ (j < i => r[j] < r[i])
    BY <1>0, <1>1, Zenon DEF Increasing
  <2>3. ~(i < j) /\ ~(j < i)
    BY <2>1, <2>2, <1>1
  <2>. QED BY <2>3, <1>0
<1>2. (CHOOSE j \in DOMAIN r : r[j] = m.at) = i
  BY <1>0, <1>1
<1>3. Received(r, i).from = IF i = 1 THEN None ELSE r[i - 1]
  BY DEF Received, Measure
<1>. QED BY <1>2, <1>3 DEF Before

(* Every measurement is in at most one factor, for as long as it lasted, and *)
(* none is left out while the system is initialized: for any order of        *)
(* measurements, corrections and failures.                                   *)
THEOREM MeasurementsCountOnce == Spec => []EachMeasurementInOneFactor
<1>1. ASSUME Queues, Optimizer PROVE EachMeasurementInOneFactor
  <2>. DEFINE r == received
              d == GoneOpt
              s == integrated
  <2>0. /\ r \in Seq(Stamp) /\ Increasing(r) /\ d \in Nat /\ d <= Len(r) /\ Len(r) \in Nat
        /\ DOMAIN r = 1..Len(r)
    BY <1>1, GoneIsNumber, StampsAreNumbers DEF Queues, GoneOpt
  <2>1. MadeOf(s, r, d) /\ DOMAIN s = 1..Len(s)
    BY <1>1 DEF Optimizer, MadeOf
  <2>2. Increasing(StampsOf(s))
    BY <2>1 DEF Increasing, StampsOf, MadeOf
  <2>3. ASSUME NEW m \in Range(s) PROVE m.from = Before(m.at)
    <3>1. PICK k \in 1..Len(s) : m = s[k]
      BY <2>1 DEF Range
    <3>2. PICK i \in 1..d : m = Received(r, i)
      BY <2>1, <3>1 DEF MadeOf
    <3>3. i \in 1..Len(r) /\ m.at = r[i]
      BY <3>2, <2>0 DEF Received, Measure
    <3>. QED BY <2>0, <3>2, <3>3, LastsSinceBefore
  <2>4. ASSUME systemInitialized, NEW x \in Range(r), x >= initTime
        PROVE  x \in Range(StampsOf(s)) \union Range(imuQueOpt)
    <3>1. PICK i \in 1..Len(r) : x = r[i]
      BY <2>0 DEF Range
    <3>2. CASE i <= d
      <4>1. i \in 1..d
        BY <3>2, <2>0
      <4>2. PICK k \in 1..Len(s) : s[k].at = x
        BY <4>1, <3>1, <2>4, <1>1 DEF Optimizer, Optimized
      <4>3. DOMAIN StampsOf(s) = 1..Len(s) /\ StampsOf(s)[k] = x
        BY <4>2, <2>1 DEF StampsOf
      <4>. QED BY <4>3 DEF Range
    <3>3. CASE ~(i <= d)
      <4>1. /\ imuQueOpt \in Seq(Stamp) /\ Len(imuQueOpt) \in Nat
            /\ DOMAIN imuQueOpt = 1..Len(imuQueOpt) /\ Len(imuQueOpt) = Len(r) - d
            /\ \A k \in 1..Len(imuQueOpt) : imuQueOpt[k] = r[k + d]
        BY <1>1, <2>0, StampsAreNumbers DEF Queues, Rest, GoneOpt, Gone
      <4>2. i - d \in 1..Len(imuQueOpt) /\ (i - d) + d = i
        BY <4>1, <3>3, <2>0
      <4>3. imuQueOpt[i - d] = x
        BY <4>1, <4>2, <3>1
      <4>. QED BY <4>1, <4>2, <4>3 DEF Range
    <3>. QED BY <3>2, <3>3
  <2>. QED BY <2>2, <2>3, <2>4 DEF EachMeasurementInOneFactor
<1>. QED BY <1>1, QueuesInvariant, PTL

-----------------------------------------------------------------------------
(* The prediction.  An integrator ends with what a queue holds.              *)
EndsWith(s, q) ==
    /\ Len(q) <= Len(s)
    /\ \A k \in 1..Len(q) : s[k + (Len(s) - Len(q))].at = q[k]

LEMMA EndsWithAppend ==
    ASSUME NEW s \in Seq(Measurement), NEW q \in Seq(Stamp), EndsWith(s, q),
           NEW m \in Measurement
    PROVE  /\ EndsWith(Append(s, m), Append(q, m.at))
           /\ Len(Append(s, m)) = Len(s) + 1 /\ Len(Append(q, m.at)) = Len(q) + 1
<1>. DEFINE t == m.at
<1>0. t \in Stamp
  BY DEF Measurement
<1>. HIDE DEF t
<1>1. /\ Len(Append(s, m)) = Len(s) + 1 /\ Len(s) \in Nat
      /\ \A k \in 1..Len(s) : Append(s, m)[k] = s[k]
      /\ Append(s, m)[Len(s) + 1] = m
  OBVIOUS
<1>2. /\ Len(Append(q, t)) = Len(q) + 1 /\ Len(q) \in Nat
      /\ \A k \in 1..Len(q) : Append(q, t)[k] = q[k]
      /\ Append(q, t)[Len(q) + 1] = t
  BY <1>0
<1>3. Len(q) <= Len(s)
  BY DEF EndsWith
<1>4. ASSUME NEW k \in 1..(Len(q) + 1)
      PROVE  Append(s, m)[k + (Len(s) - Len(q))].at = Append(q, t)[k]
  <2>1. CASE k = Len(q) + 1
    <3>1. k + (Len(s) - Len(q)) = Len(s) + 1
      BY <2>1, <1>1, <1>2
    <3>. QED BY <3>1, <2>1, <1>1, <1>2 DEF t
  <2>2. CASE k # Len(q) + 1
    <3>1. k \in 1..Len(q) /\ k + (Len(s) - Len(q)) \in 1..Len(s)
      BY <2>2, <1>1, <1>2, <1>3
    <3>2. s[k + (Len(s) - Len(q))].at = q[k]
      BY <3>1 DEF EndsWith
    <3>. QED BY <3>1, <3>2, <1>1, <1>2
  <2>. QED BY <2>1, <2>2
<1>5. Len(Append(s, m)) - Len(Append(q, t)) = Len(s) - Len(q)
      /\ Len(Append(q, t)) <= Len(Append(s, m))
  BY <1>1, <1>2, <1>3
<1>. QED BY <1>1, <1>2, <1>4, <1>5 DEF EndsWith, t

LEMMA EndsWithIsSuffix ==
    ASSUME NEW s \in Seq(Measurement), NEW q \in Seq(Stamp), EndsWith(s, q)
    PROVE  /\ IsSuffix(q, StampsOf(s))
           /\ Len(s) = Len(q) => StampsOf(s) = q
<1>. DEFINE w == StampsOf(s)
<1>0. Len(s) \in Nat /\ Len(q) \in Nat /\ Len(q) <= Len(s) /\ DOMAIN s = 1..Len(s)
      /\ DOMAIN q = 1..Len(q)
  BY DEF EndsWith
<1>1. w \in [1..Len(s) -> Stamp] /\ \A i \in 1..Len(s) : w[i] = s[i].at
  <2>1. \A i \in 1..Len(s) : s[i] \in Measurement
    OBVIOUS
  <2>. QED BY <2>1, <1>0 DEF StampsOf, Measurement
<1>. HIDE DEF w
<1>2. w \in Seq(Stamp) /\ Len(w) = Len(s)
  BY <1>0, <1>1, FunctionIsSeq
<1>3. ASSUME NEW i \in 1..Len(q) PROVE Reverse(q)[i] = Reverse(w)[i]
  <2>1. (Len(q) - i) + 1 \in 1..Len(q)
        /\ ((Len(q) - i) + 1) + (Len(s) - Len(q)) = (Len(s) - i) + 1
        /\ (Len(s) - i) + 1 \in 1..Len(s) /\ i \in 1..Len(s)
    BY <1>0
  <2>2. q[(Len(q) - i) + 1] = w[(Len(s) - i) + 1]
    BY <2>1, <1>1, SMTT(30) DEF EndsWith
  <2>. QED BY <2>1, <2>2, <1>2 DEF Reverse
<1>4. /\ Reverse(q) \in Seq(Stamp) /\ Len(Reverse(q)) = Len(q)
      /\ Reverse(w) \in Seq(Stamp) /\ Len(Reverse(w)) = Len(s)
  <2>1. ASSUME NEW x \in Seq(Stamp) PROVE Reverse(x) \in Seq(Stamp) /\ Len(Reverse(x)) = Len(x)
    <3>1. Len(x) \in Nat /\ \A i \in 1..Len(x) : x[i] \in Stamp
      OBVIOUS
    <3>2. \A i \in 1..Len(x) : (Len(x) - i) + 1 \in 1..Len(x)
      BY <3>1
    <3>3. Reverse(x) \in [1..Len(x) -> Stamp]
      BY <3>1, <3>2 DEF Reverse
    <3>. QED BY <3>1, <3>3, FunctionIsSeq
  <2>. QED BY <2>1, <1>2
<1>5. IsSuffix(q, w)
  <2>. DEFINE a == Reverse(q)
              b == Reverse(w)
  <2>1. /\ a \in Seq(Stamp) /\ b \in Seq(Stamp) /\ Len(a) = Len(q) /\ Len(b) = Len(s)
        /\ \A i \in 1..Len(a) : a[i] = b[i]
    BY <1>3, <1>4
  <2>. HIDE DEF a, b
  <2>2. SubSeq(a, 1, Len(a)) = SubSeq(b, 1, Len(a))
    BY <2>1, <1>0
  <2>3. Len(a) <= Len(b)
    BY <2>1, <1>0
  <2>. QED BY <2>2, <2>3 DEF IsSuffix, IsPrefix, a, b
<1>6. ASSUME Len(s) = Len(q) PROVE w = q
  <2>1. \A i \in 1..Len(q) : w[i] = q[i]
    BY <1>6, <1>0, <1>1 DEF EndsWith
  <2>. QED BY <2>1, <1>0, <1>1, <1>6
<1>. QED BY <1>5, <1>6 DEF w

LEMMA IntegrateAllEnds ==
    ASSUME NEW q \in Seq(Stamp), NEW last \in Stamp \union {None}
    PROVE  /\ IntegrateAll(q, last) \in Seq(Measurement)
           /\ Len(IntegrateAll(q, last)) = Len(q)
           /\ EndsWith(IntegrateAll(q, last), q)
<1>0. Len(q) \in Nat /\ DOMAIN q = 1..Len(q) /\ \A i \in 1..Len(q) : q[i] \in Stamp
  OBVIOUS
<1>1. ASSUME NEW i \in 1..Len(q)
      PROVE  Measure(IF i = 1 THEN last ELSE q[i - 1], q[i]) \in Measurement
  <2>1. i # 1 => i - 1 \in 1..Len(q)
    BY <1>0
  <2>. QED BY <2>1, <1>0 DEF Measure, Measurement
<1>2. /\ IntegrateAll(q, last) \in [1..Len(q) -> Measurement]
      /\ \A i \in 1..Len(q) : IntegrateAll(q, last)[i].at = q[i]
  BY <1>0, <1>1 DEF IntegrateAll, Measure
<1>3. IntegrateAll(q, last) \in Seq(Measurement) /\ Len(IntegrateAll(q, last)) = Len(q)
  BY <1>0, <1>2, FunctionIsSeq
<1>. QED BY <1>0, <1>2, <1>3 DEF EndsWith

(* What d, n and p say of r: a prediction from the correction of time p,     *)
(* made when n measurements had arrived, does without exactly the first d.   *)
Since(r, d, n, p) ==
    /\ n \in Nat /\ n <= Len(r)
    /\ \A i \in 1..d : i <= n /\ r[i] < p
    /\ \A i \in (d + 1)..Len(r) : i > n \/ r[i] >= p

Fed(r, n, p) == \E i \in 1..n : r[i] >= p

LEMMA SinceAppend ==
    ASSUME NEW r \in Seq(Stamp), NEW d \in Nat, d <= Len(r), NEW n, NEW p,
           Since(r, d, n, p), NEW t \in Stamp
    PROVE  /\ Since(Append(r, t), d, n, p)
           /\ Fed(Append(r, t), n, p) => Fed(r, n, p)
<1>1. /\ Len(Append(r, t)) = Len(r) + 1 /\ Len(r) \in Nat
      /\ \A i \in 1..Len(r) : Append(r, t)[i] = r[i]
  OBVIOUS
<1>2. n \in Nat /\ n <= Len(r)
  BY DEF Since
<1>3. \A i \in 1..d : i <= n /\ Append(r, t)[i] < p
  BY <1>1 DEF Since
<1>4. ASSUME NEW i \in (d + 1)..(Len(r) + 1) PROVE i > n \/ Append(r, t)[i] >= p
  <2>1. CASE i = Len(r) + 1
    BY <2>1, <1>1, <1>2
  <2>2. CASE i # Len(r) + 1
    <3>1. i \in (d + 1)..Len(r) /\ i \in 1..Len(r)
      BY <2>2, <1>1
    <3>2. i > n \/ r[i] >= p
      BY <3>1 DEF Since
    <3>. QED BY <3>1, <3>2, <1>1
  <2>. QED BY <2>1, <2>2
<1>5. Fed(Append(r, t), n, p) => Fed(r, n, p)
  <2>1. \A i \in 1..n : Append(r, t)[i] = r[i]
    BY <1>1, <1>2
  <2>. QED BY <2>1 DEF Fed
<1>. QED BY <1>1, <1>2, <1>3, <1>4, <1>5 DEF Since

GoneImu == Gone(imuQueImu, received)

Predicting ==
    /\ prevStateOdom > failTime
    /\ EndsWith(imuIntegratorImu, imuQueImu)
    /\ Fed(received, seen, prevStateOdom) => Len(imuIntegratorImu) = Len(imuQueImu)

Prediction ==
    /\ failTime \in Nat /\ failTime <= odomTime
    /\ prevStateOdom \in Nat
    /\ lastImuT_imu \in Stamp \union {None}
    /\ imuIntegratorImu \in Seq(Measurement)
    /\ Since(received, GoneImu, seen, prevStateOdom)
    /\ doneFirstOpt => systemInitialized /\ Predicting

LEMMA MeasurementPredicts ==
    ASSUME Queues, Prediction, NEW t \in Stamp, ImuHandler(t)
    PROVE  Prediction'
<1>0. /\ received \in Seq(Stamp) /\ GoneImu \in Nat /\ GoneImu <= Len(received)
      /\ imuQueImu \in Seq(Stamp) /\ Rest(imuQueImu, received, odomTime)
      /\ odomTime \in Nat
  BY GoneIsNumber DEF Queues, GoneImu, Rest
<1>1. /\ received' = Append(received, t) /\ imuQueImu' = Append(imuQueImu, t)
      /\ UNCHANGED <<failTime, odomTime, prevStateOdom, seen, doneFirstOpt, systemInitialized>>
  BY DEF ImuHandler
<1>2. GoneImu' = GoneImu
  BY <1>0, <1>1, RestAppend DEF GoneImu
<1>. DEFINE d == GoneImu
<1>3. Since(received', d, seen, prevStateOdom)
      /\ (Fed(received', seen, prevStateOdom) => Fed(received, seen, prevStateOdom))
  <2>1. Since(received, d, seen, prevStateOdom)
    BY DEF Prediction
  <2>. HIDE DEF d
  <2>2. d \in Nat /\ d <= Len(received)
    BY <1>0 DEF d
  <2>. QED BY <2>1, <2>2, <1>0, <1>1, SinceAppend
<1>4. CASE doneFirstOpt
  <2>. DEFINE m == Measure(lastImuT_imu, t)
  <2>1. m \in Measurement /\ m.at = t
    BY DEF Measure, Measurement, Prediction
  <2>2. lastImuT_imu' = t /\ imuIntegratorImu' = Append(imuIntegratorImu, m)
    BY <1>4 DEF ImuHandler
  <2>. HIDE DEF m
  <2>3. imuIntegratorImu \in Seq(Measurement) /\ EndsWith(imuIntegratorImu, imuQueImu)
    BY <1>4 DEF Prediction, Predicting
  <2>4. /\ EndsWith(imuIntegratorImu', imuQueImu')
        /\ Len(imuIntegratorImu') = Len(imuIntegratorImu) + 1
        /\ Len(imuQueImu') = Len(imuQueImu) + 1
    BY <2>1, <2>2, <2>3, <1>0, <1>1, EndsWithAppend
  <2>5. imuIntegratorImu' \in Seq(Measurement)
    BY <2>1, <2>2, <2>3
  <2>6. Predicting'
    BY <1>1, <1>3, <1>4, <2>4 DEF Prediction, Predicting
  <2>. QED BY <1>1, <1>2, <1>3, <2>2, <2>5, <2>6 DEF Prediction
<1>5. CASE ~doneFirstOpt
  <2>1. UNCHANGED <<lastImuT_imu, imuIntegratorImu>>
    BY <1>5 DEF ImuHandler
  <2>. QED BY <2>1, <1>1, <1>2, <1>3, <1>5 DEF Prediction
<1>. QED BY <1>4, <1>5

LEMMA CorrectionPredicts ==
    ASSUME Queues, Prediction, NEW c \in Stamp, c > odomTime, odomTime' = c, Correct(c)
    PROVE  Prediction'
<1>. DEFINE r == received
            d == GoneImu
            q == Newer(imuQueImu, c)
            last == LastPopped(imuQueImu, c, None)
<1>0. /\ r \in Seq(Stamp) /\ Increasing(r) /\ d \in Nat /\ d <= Len(r) /\ Len(r) \in Nat
      /\ Rest(imuQueImu, r, odomTime) /\ odomTime \in Nat /\ c \in Nat
      /\ failTime \in Nat /\ failTime <= odomTime
      /\ \A i \in 1..Len(r) : r[i] \in Stamp
  BY GoneIsNumber, StampsAreNumbers DEF Queues, GoneImu, Prediction
<1>1. /\ r' = r /\ imuQueImu' = q /\ prevStateOdom' = c /\ seen' = Len(r)
      /\ imuIntegratorImu' = IF q = <<>> THEN imuIntegratorImu ELSE IntegrateAll(q, last)
      /\ doneFirstOpt' = TRUE /\ systemInitialized' = systemInitialized /\ systemInitialized
      /\ UNCHANGED <<lastImuT_imu, failTime>>
  BY DEF Correct, Repropagate
<1>2. PICK e \in d..Len(r) : PoppedTo(r, d, imuQueImu, c, e)
  BY <1>0, RestPopped DEF GoneImu
<1>3. /\ q \in Seq(Stamp) /\ Len(q) = Len(r) - e
      /\ \A i \in 1..e : r[i] < c
      /\ \A i \in (e + 1)..Len(r) : r[i] >= c
      /\ last = IF e = d THEN None ELSE r[e]
  BY <1>2 DEF PoppedTo
<1>4. GoneImu' = e
  BY <1>0, <1>1, <1>3 DEF GoneImu, Gone
<1>5. last \in Stamp \union {None}
  BY <1>0, <1>3
<1>6. Since(r, e, Len(r), c)
  BY <1>0, <1>3 DEF Since
<1>7. imuIntegratorImu \in Seq(Measurement)
  BY DEF Prediction
<1>. HIDE DEF q, last, d
<1>8. /\ imuIntegratorImu' \in Seq(Measurement)
      /\ EndsWith(imuIntegratorImu', q)
      /\ Fed(r, Len(r), c) => Len(imuIntegratorImu') = Len(q)
  <2>1. CASE q = <<>>
    <3>1. e = Len(r) /\ Len(q) = 0
      BY <2>1, <1>0, <1>3
    <3>2. ~Fed(r, Len(r), c)
      <4>. SUFFICES ASSUME NEW i \in 1..Len(r) PROVE ~(r[i] >= c)
        BY DEF Fed
      <4>1. r[i] < c /\ r[i] \in Nat
        BY <3>1, <1>0, <1>3, StampsAreNumbers
      <4>. QED BY <4>1, <1>0
    <3>3. imuIntegratorImu' = imuIntegratorImu
      BY <2>1, <1>1
    <3>4. Len(imuIntegratorImu) \in Nat
      BY <1>7
    <3>. QED BY <3>1, <3>2, <3>3, <3>4, <1>7 DEF EndsWith
  <2>2. CASE q # <<>>
    BY <2>2, <1>1, <1>3, <1>5, IntegrateAllEnds
  <2>. QED BY <2>1, <2>2
<1>9. c > failTime
  BY <1>0
<1>10. Predicting'
  BY <1>1, <1>8, <1>9 DEF Predicting
<1>. QED BY <1>0, <1>1, <1>4, <1>6, <1>8, <1>10 DEF Prediction

LEMMA PredictionHolds ==
    ASSUME Queues, Prediction, NEW t \in Stamp, ImuHandler(t) \/ OdometryHandler(t)
    PROVE  Prediction'
<1>1. CASE ImuHandler(t)
  BY <1>1, MeasurementPredicts
<1>2. CASE OdometryHandler(t)
  <2>1. t > odomTime /\ odomTime' = t /\ t \in Nat /\ odomTime \in Nat
    BY <1>2, StampsAreNumbers DEF OdometryHandler, Queues
  <2>2. CASE Correct(t)
    BY <2>1, <2>2, CorrectionPredicts
  <2>3. CASE IgnoreCorrection
    <3>1. /\ UNCHANGED <<failTime, prevStateOdom, lastImuT_imu, imuIntegratorImu, seen,
                         received, imuQueImu, doneFirstOpt, systemInitialized>>
      BY <2>3 DEF IgnoreCorrection, queues
    <3>2. failTime \in Nat /\ failTime <= odomTime'
      BY <2>1 DEF Prediction
    <3>. QED BY <3>1, <3>2 DEF Prediction, Predicting, GoneImu, Gone
  <2>4. CASE Initialize(t)
    <3>1. /\ UNCHANGED <<failTime, prevStateOdom, lastImuT_imu, seen,
                         received, imuQueImu, doneFirstOpt>>
          /\ imuIntegratorImu' = <<>> /\ ~systemInitialized
      BY <2>4 DEF Initialize
    <3>2. failTime \in Nat /\ failTime <= odomTime' /\ ~doneFirstOpt
      BY <2>1, <3>1 DEF Prediction
    <3>3. <<>> \in Seq(Measurement)
      OBVIOUS
    <3>. QED BY <3>1, <3>2, <3>3 DEF Prediction, GoneImu, Gone
  <2>5. CASE CorrectionFails(t)
    <3>1. /\ UNCHANGED <<prevStateOdom, imuIntegratorImu, seen, received, imuQueImu>>
          /\ failTime' = t /\ doneFirstOpt' = FALSE /\ lastImuT_imu' = None
      BY <2>5 DEF CorrectionFails, ResetParams
    <3>. QED BY <3>1, <2>1 DEF Prediction, GoneImu, Gone
  <2>. QED BY <1>2, <2>2, <2>3, <2>4, <2>5 DEF OdometryHandler
<1>. QED BY <1>1, <1>2

LEMMA PredictionInvariant == Spec => []Prediction
<1>1. ASSUME Init PROVE Prediction
  <2>1. <<>> \in Seq(Measurement) /\ Len(<<>>) = 0
    OBVIOUS
  <2>2. Since(<<>>, 0, 0, 0) /\ Gone(<<>>, <<>>) = 0
    BY <2>1 DEF Since, Gone
  <2>. QED BY <1>1, <2>1, <2>2 DEF Init, Prediction, GoneImu
<1>2. ASSUME Queues /\ Optimizer, Prediction, [Next]_vars PROVE Prediction'
  <2>1. CASE UNCHANGED vars
    BY <1>2, <2>1 DEF vars, queues, Prediction, Predicting, GoneImu, Gone
  <2>2. CASE Next
    BY <1>2, <2>2, PredictionHolds DEF Next
  <2>. QED BY <1>2, <2>1, <2>2
<1>. QED BY <1>1, <1>2, QueuesInvariant, PTL DEF Spec

(* How long the measurements of a prediction count: since the one before, or *)
(* the time of a first one; and what is remembered of the last one is still  *)
(* the last one, or nothing.                                                 *)
Lasts(m, r) == \E i \in 1..Len(r) : m \in {Received(r, i), Measure(None, r[i])}

Durations ==
    /\ imuIntegratorImu \in Seq(Measurement)
    /\ \A k \in 1..Len(imuIntegratorImu) : Lasts(imuIntegratorImu[k], received)
    /\ lastImuT_imu \in {None, LastGone(received, Len(received))}
    /\ ~doneFirstOpt => lastImuT_imu = None

LEMMA LastsAppend ==
    ASSUME NEW r \in Seq(Stamp), NEW m, Lasts(m, r), NEW t \in Stamp
    PROVE  Lasts(m, Append(r, t))
<1>1. /\ Len(Append(r, t)) = Len(r) + 1 /\ Len(r) \in Nat
      /\ \A i \in 1..Len(r) : Append(r, t)[i] = r[i]
  OBVIOUS
<1>2. PICK i \in 1..Len(r) : m \in {Received(r, i), Measure(None, r[i])}
  BY DEF Lasts
<1>3. i \in 1..Len(Append(r, t)) /\ (i # 1 => i - 1 \in 1..Len(r))
  BY <1>1
<1>4. Received(Append(r, t), i) = Received(r, i) /\ Append(r, t)[i] = r[i]
  BY <1>1, <1>3 DEF Received
<1>. QED BY <1>2, <1>3, <1>4 DEF Lasts

LEMMA MeasurementLasts ==
    ASSUME Queues, Durations, NEW t \in Stamp, ImuHandler(t)
    PROVE  Durations'
<1>. DEFINE r == received
            n == Len(received)
<1>0. r \in Seq(Stamp) /\ n \in Nat /\ \A i \in 1..n : r[i] \in Stamp
  BY StampsAreNumbers DEF Queues
<1>1. received' = Append(r, t) /\ doneFirstOpt' = doneFirstOpt
  BY DEF ImuHandler
<1>2. /\ Len(received') = n + 1 /\ received'[n + 1] = t
      /\ \A i \in 1..n : received'[i] = r[i]
  BY <1>0, <1>1
<1>3. \A k \in 1..Len(imuIntegratorImu) : Lasts(imuIntegratorImu[k], received')
  BY <1>0, <1>1, LastsAppend DEF Durations
<1>4. CASE ~doneFirstOpt
  <2>1. UNCHANGED <<lastImuT_imu, imuIntegratorImu>>
    BY <1>4 DEF ImuHandler
  <2>. QED BY <2>1, <1>1, <1>3, <1>4 DEF Durations
<1>5. CASE doneFirstOpt
  <2>. DEFINE m == Measure(lastImuT_imu, t)
  <2>1. lastImuT_imu' = t /\ imuIntegratorImu' = Append(imuIntegratorImu, m)
    BY <1>5 DEF ImuHandler
  <2>2. Lasts(m, received')
    <3>1. n + 1 \in 1..Len(received')
      BY <1>0, <1>2
    <3>2. CASE lastImuT_imu = None
      BY <3>1, <3>2, <1>2 DEF Lasts
    <3>3. CASE lastImuT_imu = LastGone(r, n)
      <4>1. m = Received(received', n + 1)
        BY <3>3, <1>0, <1>2 DEF LastGone, Received
      <4>. QED BY <3>1, <4>1 DEF Lasts
    <3>. QED BY <3>2, <3>3 DEF Durations
  <2>3. m \in Measurement
    <3>1. lastImuT_imu \in Stamp \union {None}
      BY <1>0 DEF Durations, LastGone
    <3>. QED BY <3>1 DEF Measure, Measurement
  <2>. HIDE DEF m
  <2>4. /\ imuIntegratorImu' \in Seq(Measurement)
        /\ \A k \in 1..Len(imuIntegratorImu') : Lasts(imuIntegratorImu'[k], received')
    <3>1. imuIntegratorImu \in Seq(Measurement)
      BY DEF Durations
    <3>2. /\ imuIntegratorImu' \in Seq(Measurement)
          /\ Len(imuIntegratorImu') = Len(imuIntegratorImu) + 1
          /\ Len(imuIntegratorImu) \in Nat
          /\ \A k \in 1..Len(imuIntegratorImu) : imuIntegratorImu'[k] = imuIntegratorImu[k]
          /\ imuIntegratorImu'[Len(imuIntegratorImu) + 1] = m
      BY <3>1, <2>1, <2>3
    <3>3. ASSUME NEW k \in 1..Len(imuIntegratorImu')
          PROVE  k \in 1..Len(imuIntegratorImu) \/ k = Len(imuIntegratorImu) + 1
      BY <3>2
    <3>. QED BY <3>2, <3>3, <1>3, <2>2
  <2>5. lastImuT_imu' = LastGone(received', Len(received'))
    BY <2>1, <1>0, <1>2 DEF LastGone
  <2>. QED BY <2>4, <2>5, <1>1, <1>5 DEF Durations
<1>. QED BY <1>4, <1>5

(* What is integrated again when measurements after e are left *)
LEMMA RepropagateLasts ==
    ASSUME NEW r \in Seq(Stamp), NEW d \in Nat, NEW e \in d..Len(r), NEW q, NEW c,
           PoppedTo(r, d, q, c, e)
    PROVE  LET again == IntegrateAll(Newer(q, c), LastPopped(q, c, None))
           IN /\ again \in Seq(Measurement)
              /\ \A k \in 1..Len(again) : Lasts(again[k], r)
<1>. DEFINE newer == Newer(q, c)
            last == LastPopped(q, c, None)
            again == IntegrateAll(newer, last)
<1>1. /\ newer \in Seq(Stamp) /\ Len(newer) = Len(r) - e
      /\ \A i \in 1..(Len(r) - e) : newer[i] = r[i + e]
      /\ last = IF e = d THEN None ELSE r[e]
  BY DEF PoppedTo
<1>. HIDE DEF newer, last
<1>2. Len(r) \in Nat /\ e \in Nat /\ DOMAIN newer = 1..Len(newer)
      /\ \A i \in 1..Len(r) : r[i] \in Stamp
  BY <1>1, StampsAreNumbers
<1>3. last \in Stamp \union {None}
  BY <1>1, <1>2
<1>4. again \in Seq(Measurement) /\ Len(again) = Len(newer)
  BY <1>1, <1>3, IntegrateAllEnds
<1>5. ASSUME NEW k \in 1..Len(again) PROVE Lasts(again[k], r)
  <2>1. again[k] = Measure(IF k = 1 THEN last ELSE newer[k - 1], newer[k])
    BY <1>2, <1>4 DEF IntegrateAll
  <2>2. k + e \in 1..Len(r) /\ newer[k] = r[k + e] /\ k \in Nat
    BY <1>1, <1>2, <1>4
  <2>3. CASE k = 1
    <3>1. again[k] = Measure(last, r[k + e])
      BY <2>1, <2>2, <2>3
    <3>2. CASE e = d
      <4>1. last = None
        BY <3>2, <1>1
      <4>. QED BY <3>1, <4>1, <2>2 DEF Lasts
    <3>3. CASE e # d
      <4>1. last = r[e] /\ k + e # 1 /\ (k + e) - 1 = e
        BY <3>3, <2>3, <1>1, <1>2
      <4>2. again[k] = Received(r, k + e)
        BY <3>1, <4>1 DEF Received
      <4>. QED BY <4>2, <2>2 DEF Lasts
    <3>. QED BY <3>2, <3>3
  <2>4. CASE k # 1
    <3>1. k - 1 \in 1..(Len(r) - e) /\ (k - 1) + e = (k + e) - 1 /\ k + e # 1
      BY <2>4, <1>1, <1>2, <1>4
    <3>2. newer[k - 1] = r[(k + e) - 1]
      BY <3>1, <1>1
    <3>3. again[k] = Received(r, k + e)
      BY <2>1, <2>2, <2>4, <3>1, <3>2 DEF Received
    <3>. QED BY <3>3, <2>2 DEF Lasts
  <2>. QED BY <2>3, <2>4
<1>. QED BY <1>4, <1>5 DEF newer, last

LEMMA DurationsHold ==
    ASSUME Queues, Durations, NEW t \in Stamp, ImuHandler(t) \/ OdometryHandler(t)
    PROVE  Durations'
<1>1. CASE ImuHandler(t)
  BY <1>1, MeasurementLasts
<1>2. CASE OdometryHandler(t)
  <2>1. t > odomTime
    BY <1>2 DEF OdometryHandler
  <2>2. CASE IgnoreCorrection
    BY <2>2 DEF IgnoreCorrection, queues, Durations
  <2>3. CASE Initialize(t)
    <3>1. /\ UNCHANGED <<lastImuT_imu, received, doneFirstOpt>> /\ imuIntegratorImu' = <<>>
      BY <2>3 DEF Initialize
    <3>2. <<>> \in Seq(Measurement) /\ Len(<<>>) = 0
      OBVIOUS
    <3>. QED BY <3>1, <3>2 DEF Durations
  <2>4. CASE Correct(t)
    <3>. DEFINE again == IntegrateAll(Newer(imuQueImu, t), LastPopped(imuQueImu, t, None))
    <3>1. /\ UNCHANGED <<lastImuT_imu, received>> /\ doneFirstOpt' = TRUE
          /\ imuIntegratorImu' \in {imuIntegratorImu, again}
      BY <2>4 DEF Correct, Repropagate
    <3>2. /\ received \in Seq(Stamp) /\ Increasing(received) /\ odomTime \in Nat
          /\ Rest(imuQueImu, received, odomTime) /\ Gone(imuQueImu, received) \in Nat
      BY GoneIsNumber DEF Queues
    <3>3. PICK e \in Gone(imuQueImu, received)..Len(received) :
             PoppedTo(received, Gone(imuQueImu, received), imuQueImu, t, e)
      BY <3>2, <2>1, RestPopped
    <3>4. again \in Seq(Measurement) /\ \A k \in 1..Len(again) : Lasts(again[k], received)
      BY <3>2, <3>3, RepropagateLasts
    <3>. HIDE DEF again
    <3>. QED BY <3>1, <3>4 DEF Durations
  <2>5. CASE CorrectionFails(t)
    BY <2>5 DEF CorrectionFails, ResetParams, Durations
  <2>. QED BY <1>2, <2>2, <2>3, <2>4, <2>5 DEF OdometryHandler
<1>. QED BY <1>1, <1>2

LEMMA DurationsInvariant == Spec => []Durations
<1>1. ASSUME Init PROVE Durations
  <2>1. <<>> \in Seq(Measurement) /\ Len(<<>>) = 0
    OBVIOUS
  <2>. QED BY <1>1, <2>1 DEF Init, Durations
<1>2. ASSUME Queues /\ Optimizer, Durations, [Next]_vars PROVE Durations'
  <2>1. CASE UNCHANGED vars
    BY <1>2, <2>1 DEF vars, queues, Durations
  <2>2. CASE Next
    BY <1>2, <2>2, DurationsHold DEF Next
  <2>. QED BY <1>2, <2>1, <2>2
<1>. QED BY <1>1, <1>2, QueuesInvariant, PTL DEF Spec

(* A prediction starts from a correction newer than the last that failed,    *)
(* and continues it with what that correction did not use, once and last,    *)
(* and nothing else if that correction found a measurement as new as itself; *)
(* none counts for longer than since the one before it: for any order of     *)
(* measurements, corrections and failures.                                   *)
THEOREM PredictionContinuesCorrection == Spec => []PredictsSinceCorrection
<1>1. ASSUME Queues, Prediction, Durations PROVE PredictsSinceCorrection
  <2>. SUFFICES ASSUME doneFirstOpt PROVE PredictsSinceCorrection
    BY DEF PredictsSinceCorrection
  <2>. DEFINE r == received
              q == imuQueImu
              d == GoneImu
              s == imuIntegratorImu
              since == {i \in DOMAIN r : i > seen \/ r[i] >= prevStateOdom}
  <2>0. /\ r \in Seq(Stamp) /\ DOMAIN r = 1..Len(r) /\ Len(r) \in Nat
        /\ d \in Nat /\ d <= Len(r)
        /\ q \in Seq(Stamp) /\ DOMAIN q = 1..Len(q) /\ Len(q) \in Nat
        /\ Len(q) = Len(r) - d /\ \A i \in 1..Len(q) : q[i] = r[i + d]
    BY <1>1, GoneIsNumber, StampsAreNumbers DEF Queues, GoneImu, Rest, Gone
  <2>1. /\ Since(r, d, seen, prevStateOdom) /\ s \in Seq(Measurement)
        /\ prevStateOdom > failTime /\ EndsWith(s, q)
        /\ Fed(r, seen, prevStateOdom) => Len(s) = Len(q)
        /\ prevStateOdom \in Nat
    BY <1>1 DEF Prediction, Predicting
  <2>2. since = (d + 1)..Len(r)
    <3>1. ASSUME NEW i \in 1..d PROVE ~(i > seen \/ r[i] >= prevStateOdom)
      <4>1. i <= seen /\ r[i] < prevStateOdom /\ seen \in Nat
        BY <2>1 DEF Since
      <4>2. r[i] \in Nat
        BY <2>0, StampsAreNumbers
      <4>. QED BY <4>1, <4>2, <2>1
    <3>2. \A i \in (d + 1)..Len(r) : i > seen \/ r[i] >= prevStateOdom
      BY <2>1 DEF Since
    <3>3. \A i : i \in 1..Len(r) <=> (i \in 1..d \/ i \in (d + 1)..Len(r))
      BY <2>0
    <3>. HIDE DEF r, d
    <3>. QED BY <3>1, <3>2, <3>3, <2>0
  <2>3. Range(q) = {r[i] : i \in since}
    <3>1. ASSUME NEW x \in Range(q) PROVE x \in {r[i] : i \in since}
      <4>1. PICK k \in 1..Len(q) : x = q[k]
        BY <2>0 DEF Range
      <4>2. x = r[k + d] /\ k + d \in (d + 1)..Len(r)
        BY <4>1, <2>0
      <4>. QED BY <4>2, <2>2
    <3>2. ASSUME NEW i \in since PROVE r[i] \in Range(q)
      <4>1. i - d \in 1..Len(q) /\ (i - d) + d = i
        BY <2>0, <2>2
      <4>2. q[i - d] = r[i]
        BY <4>1, <2>0
      <4>. QED BY <4>1, <4>2, <2>0 DEF Range
    <3>. QED BY <3>1, <3>2
  <2>4. IsSuffix(q, StampsOf(s)) /\ (Len(s) = Len(q) => StampsOf(s) = q)
    <3>. HIDE DEF q, s
    <3>. QED BY <2>0, <2>1, EndsWithIsSuffix
  <2>5. Fed(r, seen, prevStateOdom) => IntegratesFromOptimization
    BY <2>1, <2>4 DEF IntegratesFromOptimization
  <2>6. ASSUME NEW m \in Range(s) PROVE m.from \in {None, Before(m.at)}
    <3>1. PICK k \in 1..Len(s) : m = s[k]
      BY <2>1 DEF Range
    <3>2. PICK i \in 1..Len(r) : m \in {Received(r, i), Measure(None, r[i])}
      BY <3>1, <1>1 DEF Durations, Lasts
    <3>3. CASE m = Received(r, i)
      <4>1. m.at = r[i]
        BY <3>3 DEF Received, Measure
      <4>. QED BY <1>1, <3>3, <4>1, LastsSinceBefore DEF Queues
    <3>4. CASE m = Measure(None, r[i])
      BY <3>4 DEF Measure
    <3>. QED BY <3>2, <3>3, <3>4
  <2>. HIDE DEF IntegratesFromOptimization, s, q, d
  <2>. QED BY <2>1, <2>3, <2>4, <2>5, <2>6 DEF PredictsSinceCorrection, Fed, s, q
<1>. QED BY <1>1, QueuesInvariant, PredictionInvariant, DurationsInvariant, PTL
-----------------------------------------------------------------------------
(* TransformFusion behind IMUPreintegration.  IMUPreintegration behaves as   *)
(* it does by itself, so that all of the above holds of the process.         *)
THEOREM OdometryImplementsSpec == OdometrySpec => Spec
<1>1. OdometryInit => Init
  BY DEF OdometryInit
<1>2. [OdometryNext]_odometryVars => [Next]_vars
  BY DEF OdometryNext, odometryVars, Measured, Corrected, DeliverIncremental,
         DeliverLidarOdometry, Next
<1>. QED BY <1>1, <1>2, PTL DEF OdometrySpec, Spec

(* What is sent, delivered or not, is in the order of the measurements.      *)
NotAfter(q, r) == \A i \in 1..Len(q) : r # <<>> /\ q[i] <= r[Len(r)]

Sent ==
    /\ heard \in Seq(Stamp) /\ Increasing(heard) /\ NotAfter(heard, received)
    /\ incremental \in Seq(Stamp) /\ Increasing(incremental)
    /\ NotAfter(incremental, received)
    /\ \A i \in 1..Len(heard), j \in 1..Len(incremental) : heard[i] < incremental[j]

LEMMA LastOfSeq ==
    ASSUME NEW S, NEW q \in Seq(S), q # <<>>
    PROVE  Len(q) \in 1..Len(q) /\ Last(q) = q[Len(q)] /\ q[Len(q)] \in S
BY DEF Last

LEMMA NotAfterAppend ==
    ASSUME NEW q \in Seq(Stamp), NEW r \in Seq(Stamp), NotAfter(q, r),
           NEW t \in Stamp, r # <<>> => t > Last(r)
    PROVE  /\ NotAfter(q, Append(r, t))
           /\ NotAfter(Append(q, t), Append(r, t))
           /\ \A i \in 1..Len(q) : q[i] < t
<1>0. /\ Len(q) \in Nat /\ Len(r) \in Nat /\ t \in Nat
      /\ \A i \in 1..Len(q) : q[i] \in Nat
      /\ \A i \in 1..Len(r) : r[i] \in Nat
  BY StampsAreNumbers
<1>1. /\ Append(r, t) # <<>> /\ Append(r, t)[Len(Append(r, t))] = t
      /\ Len(Append(q, t)) = Len(q) + 1
      /\ \A i \in 1..Len(q) : Append(q, t)[i] = q[i]
      /\ Append(q, t)[Len(q) + 1] = t
  <2>1. Len(Append(r, t)) = Len(r) + 1 /\ Append(r, t)[Len(r) + 1] = t
    OBVIOUS
  <2>2. Append(r, t) # <<>>
    BY <2>1, <1>0
  <2>. QED BY <2>1, <2>2
<1>2. ASSUME NEW i \in 1..Len(q) PROVE q[i] < t
  <2>1. r # <<>> /\ q[i] <= r[Len(r)]
    BY DEF NotAfter
  <2>2. Len(r) \in 1..Len(r) /\ Last(r) = r[Len(r)]
    BY <2>1, <1>0 DEF Last
  <2>3. q[i] \in Nat /\ r[Len(r)] \in Nat /\ t > r[Len(r)]
    BY <2>1, <2>2, <1>0
  <2>. QED BY <2>1, <2>3, <1>0
<1>3. NotAfter(q, Append(r, t))
  <2>1. \A i \in 1..Len(q) : q[i] <= t
    BY <1>0, <1>2
  <2>. QED BY <1>1, <2>1 DEF NotAfter
<1>4. NotAfter(Append(q, t), Append(r, t))
  <2>1. \A i \in 1..(Len(q) + 1) : Append(q, t)[i] <= t
    BY <1>0, <1>1, <1>2
  <2>. QED BY <1>1, <2>1 DEF NotAfter
<1>. QED BY <1>2, <1>3, <1>4

LEMMA SentHolds ==
    ASSUME Queues, Sent, [OdometryNext]_odometryVars
    PROVE  Sent'
<1>0. received \in Seq(Stamp) /\ Increasing(received)
  BY DEF Queues
<1>1. ASSUME NEW t \in Stamp, Measured(t) PROVE Sent'
  <2>1. /\ received' = Append(received, t) /\ (received # <<>> => t > Last(received))
        /\ heard' = heard
    BY <1>1 DEF Measured, ImuHandler, fusionVars
  <2>2. /\ heard \in Seq(Stamp) /\ incremental \in Seq(Stamp)
        /\ NotAfter(heard, received) /\ NotAfter(incremental, received)
    BY DEF Sent
  <2>3. /\ NotAfter(heard, received') /\ \A i \in 1..Len(heard) : heard[i] < t
    BY <1>0, <2>1, <2>2, NotAfterAppend
  <2>4. /\ NotAfter(incremental, received')
        /\ NotAfter(Append(incremental, t), received')
        /\ \A i \in 1..Len(incremental) : incremental[i] < t
    BY <1>0, <2>1, <2>2, NotAfterAppend
  <2>5. CASE incremental' = incremental
    BY <2>1, <2>3, <2>4, <2>5 DEF Sent
  <2>6. CASE incremental' = Append(incremental, t)
    <3>1. incremental' \in Seq(Stamp) /\ Len(incremental') = Len(incremental) + 1
          /\ (\A i \in 1..Len(incremental) : incremental'[i] = incremental[i])
          /\ incremental'[Len(incremental) + 1] = t
          /\ Len(incremental) \in Nat
      BY <2>2, <2>6
    <3>2. Increasing(incremental')
      <4>1. incremental # <<>> => t > Last(incremental)
        BY <2>2, <2>4, LastOfSeq, StampsAreNumbers
      <4>. QED BY <2>2, <2>6, <4>1, IncreasingAppend DEF Sent
    <3>3. \A i \in 1..Len(heard), j \in 1..Len(incremental') : heard[i] < incremental'[j]
      <4>. SUFFICES ASSUME NEW i \in 1..Len(heard), NEW j \in 1..Len(incremental')
                    PROVE  heard[i] < incremental'[j]
        OBVIOUS
      <4>1. CASE j = Len(incremental) + 1
        BY <2>3, <3>1, <4>1
      <4>2. CASE j \in 1..Len(incremental)
        BY <3>1, <4>2 DEF Sent
      <4>. QED BY <3>1, <4>1, <4>2
    <3>. QED BY <2>1, <2>3, <2>4, <2>6, <3>1, <3>2, <3>3 DEF Sent
  <2>. QED BY <1>1, <2>5, <2>6 DEF Measured
<1>2. ASSUME DeliverIncremental PROVE Sent'
  <2>. DEFINE t == Head(incremental)
  <2>1. /\ incremental # <<>> /\ incremental' = Tail(incremental)
        /\ heard' = Append(heard, t) /\ received' = received
    BY <1>2 DEF DeliverIncremental, Fusion!ImuOdometryHandler, vars, queues
  <2>2. /\ heard \in Seq(Stamp) /\ incremental \in Seq(Stamp)
    BY DEF Sent
  <2>3. /\ Len(incremental) \in Nat \ {0} /\ t = incremental[1] /\ t \in Stamp
        /\ incremental' \in Seq(Stamp) /\ Len(incremental') = Len(incremental) - 1
        /\ \A i \in 1..(Len(incremental) - 1) : incremental'[i] = incremental[i + 1]
        /\ DOMAIN incremental = 1..Len(incremental)
        /\ DOMAIN incremental' = 1..(Len(incremental) - 1)
    BY <2>1, <2>2
  <2>. HIDE DEF t
  <2>4. /\ heard' \in Seq(Stamp) /\ Len(heard') = Len(heard) + 1 /\ Len(heard) \in Nat
        /\ \A i \in 1..Len(heard) : heard'[i] = heard[i]
        /\ heard'[Len(heard) + 1] = t
        /\ DOMAIN heard = 1..Len(heard) /\ DOMAIN heard' = 1..(Len(heard) + 1)
    BY <2>1, <2>2, <2>3
  <2>5. \A i \in 1..Len(heard) : heard[i] < t
    BY <2>3 DEF Sent
  <2>6. Increasing(heard')
    <3>1. heard # <<>> => t > Last(heard)
      BY <2>2, <2>3, <2>5, LastOfSeq, StampsAreNumbers
    <3>. QED BY <2>1, <2>2, <2>3, <3>1, IncreasingAppend DEF Sent
  <2>7. NotAfter(heard', received')
    <3>1. received # <<>> /\ t <= received[Len(received)]
      BY <2>3 DEF Sent, NotAfter
    <3>2. \A i \in 1..Len(heard) : heard[i] <= received[Len(received)]
      BY DEF Sent, NotAfter
    <3>. QED BY <2>1, <2>4, <3>1, <3>2 DEF NotAfter
  <2>8. \A i \in 1..(Len(incremental) - 1) : /\ i \in 1..Len(incremental)
                                             /\ i + 1 \in 1..Len(incremental)
    BY <2>3
  <2>9. Increasing(incremental')
    <3>. SUFFICES ASSUME NEW i \in DOMAIN incremental', NEW j \in DOMAIN incremental', i < j
                  PROVE  incremental'[i] < incremental'[j]
      BY DEF Increasing
    <3>1. i + 1 \in DOMAIN incremental /\ j + 1 \in DOMAIN incremental /\ i + 1 < j + 1
      BY <2>3
    <3>2. incremental[i + 1] < incremental[j + 1]
      BY <3>1, Zenon DEF Sent, Increasing
    <3>. QED BY <2>3, <3>2
  <2>10. NotAfter(incremental', received')
    <3>1. \A i \in 1..Len(incremental) : /\ received # <<>>
                                         /\ incremental[i] <= received[Len(received)]
      BY DEF Sent, NotAfter
    <3>2. \A i \in 1..(Len(incremental) - 1) : incremental[i + 1] <= received[Len(received)]
      BY <2>8, <3>1, Zenon
    <3>. QED BY <2>1, <2>3, <3>1, <3>2 DEF NotAfter
  <2>11. \A i \in 1..Len(heard'), j \in 1..Len(incremental') : heard'[i] < incremental'[j]
    <3>. SUFFICES ASSUME NEW i \in 1..Len(heard'), NEW j \in 1..Len(incremental')
                  PROVE  heard'[i] < incremental'[j]
      OBVIOUS
    <3>1. j + 1 \in 1..Len(incremental) /\ incremental'[j] = incremental[j + 1]
      BY <2>3
    <3>2. CASE i \in 1..Len(heard)
      BY <2>4, <3>1, <3>2 DEF Sent
    <3>3. CASE i = Len(heard) + 1
      <4>1. 1 \in DOMAIN incremental /\ j + 1 \in DOMAIN incremental /\ 1 < j + 1
        BY <2>3, <3>1
      <4>2. incremental[1] < incremental[j + 1]
        BY <4>1, Zenon DEF Sent, Increasing
      <4>. QED BY <2>3, <2>4, <3>1, <3>3, <4>2
    <3>. QED BY <2>4, <3>2, <3>3
  <2>. QED BY <2>3, <2>4, <2>6, <2>7, <2>9, <2>10, <2>11 DEF Sent
<1>3. ASSUME UNCHANGED <<received, incremental, heard>> PROVE Sent'
  BY <1>3 DEF Sent, NotAfter
<1>4. ASSUME NEW c \in Stamp, Corrected(c) PROVE Sent'
  <2>1. received' = received
    BY <1>4 DEF Corrected, OdometryHandler, IgnoreCorrection, Initialize, Correct,
                CorrectionFails, queues
  <2>. QED BY <1>3, <1>4, <2>1 DEF Corrected, fusionVars
<1>5. ASSUME NEW t \in Stamp, DeliverLidarOdometry(t) PROVE Sent'
  BY <1>3, <1>5 DEF DeliverLidarOdometry, Fusion!LidarOdometryHandler, vars, queues
<1>6. CASE UNCHANGED odometryVars
  BY <1>3, <1>6 DEF odometryVars, fusionVars, vars, queues
<1>. QED BY <1>1, <1>2, <1>4, <1>5, <1>6 DEF OdometryNext

(* The queue of TransformFusion: the end of what was heard; all that it does *)
(* not hold any more is not newer than the LiDAR odometry.                   *)
FusionQueue ==
    /\ lidarOdomTime \in Stamp \union {None}
    /\ Rest(imuOdomQueue, heard, lidarOdomTime + 1)

(* The operators of the community modules are the same in TransformFusion. *)
LEMMA SameOperators ==
    /\ \A S : Fusion!Min(S) = Min(S) /\ Fusion!Max(S) = Max(S)
    /\ \A s : Fusion!Last(s) = Last(s)
BY Zenon DEF Fusion!Min, Fusion!Max, Fusion!Last, Min, Max, Last

LEMMA LeastIs ==
    ASSUME NEW S, S \subseteq Nat, NEW m \in S, \A k \in S : m <= k
    PROVE  Min(S) = m
<1>1. Min(S) \in S /\ \A k \in S : Min(S) <= k
  BY Least
<1>2. Min(S) \in Nat /\ m \in Nat /\ Min(S) <= m /\ m <= Min(S)
  BY <1>1
<1>. QED BY <1>2

(* What the loop leaves of a queue that holds the end of h: its front is the *)
(* first newer than the LiDAR odometry in all of h, its back the last of h.  *)
LEMMA PopOutdatedResult ==
    ASSUME lidarOdomTime \in Stamp \union {None}, NEW h \in Seq(Stamp),
           NEW q, Rest(q, h, lidarOdomTime + 1)
    PROVE  LET since == {i \in DOMAIN h : h[i] > lidarOdomTime}
               left == Fusion!PopOutdated(q)
           IN /\ Rest(left, h, lidarOdomTime + 1)
              /\ since = {} => left = <<>>
              /\ since # {} => /\ left # <<>>
                               /\ Head(left) = h[Min(since)]
                               /\ Last(left) = h[Len(h)]
<1>. DEFINE L == lidarOdomTime
            since == {i \in DOMAIN h : h[i] > L}
            stay == {i \in 1..Len(q) : q[i] > L}
            first == IF stay # {} THEN Min(stay) ELSE 0
            left == Fusion!PopOutdated(q)
            d == Gone(q, h)
<1>0. /\ L \in Int /\ q \in Seq(Stamp) /\ Len(q) \in Nat /\ Len(h) \in Nat
      /\ DOMAIN h = 1..Len(h) /\ DOMAIN q = 1..Len(q)
      /\ \A i \in 1..Len(h) : h[i] \in Nat
      /\ d \in Nat /\ d <= Len(h) /\ Len(q) = Len(h) - d
      /\ \A i \in 1..Len(q) : q[i] = h[i + d]
      /\ \A i \in 1..d : h[i] < L + 1
  <2>1. q \in Seq(Stamp)
    BY DEF Rest
  <2>2. L \in Int
    BY DEF Stamp, None
  <2>. QED BY <2>1, <2>2, StampsAreNumbers DEF Rest, Gone
<1>1. left = IF first = 0 THEN <<>> ELSE SubSeq(q, first, Len(q))
  <2>1. \A i \in 1..Len(q) : ~Fusion!Outdated(q[i]) <=> q[i] > L
    BY <1>0, StampsAreNumbers DEF Fusion!Outdated
  <2>2. {i \in 1..Len(q) : ~Fusion!Outdated(q[i])} = stay
    BY <2>1
  <2>3. Fusion!SelectInSeq(q, LAMBDA t : ~Fusion!Outdated(t)) = first
    BY <2>2, SameOperators DEF Fusion!SelectInSeq
  <2>. HIDE DEF first
  <2>. QED BY <2>3 DEF Fusion!PopOutdated
<1>2. ASSUME NEW i \in 1..d PROVE ~(h[i] > L)
  BY <1>0
<1>3. \A i \in 1..Len(q) : i \in stay <=> i + d \in since
  BY <1>0
<1>4. CASE stay = {}
  <2>1. since = {}
    <3>. SUFFICES ASSUME NEW i \in 1..Len(h), h[i] > L PROVE FALSE
      BY <1>0
    <3>1. i - d \in 1..Len(q) /\ (i - d) + d = i
      BY <1>0, <1>2
    <3>2. i - d \in stay
      BY <1>0, <1>3, <3>1
    <3>. QED BY <1>4, <3>2
  <2>2. left = <<>>
    BY <1>1, <1>4
  <2>3. \A i \in 1..Len(h) : h[i] < L + 1
    <3>. SUFFICES ASSUME NEW i \in 1..Len(h) PROVE h[i] < L + 1
      OBVIOUS
    <3>1. h[i] \in Nat /\ L \in Int /\ ~(h[i] > L)
      BY <1>0, <2>1
    <3>. QED BY <3>1
  <2>4. Rest(<<>>, h, L + 1)
    <3>1. <<>> \in Seq(Stamp) /\ Len(<<>>) = 0 /\ Gone(<<>>, h) = Len(h)
      BY <1>0 DEF Gone
    <3>. QED BY <1>0, <2>3, <3>1 DEF Rest
  <2>. QED BY <2>1, <2>2, <2>4
<1>5. CASE stay # {}
  <2>1. PICK m \in stay : first = m /\ \A k \in stay : m <= k
    <3>1. stay \subseteq Nat
      BY <1>0
    <3>. HIDE DEF stay
    <3>. QED BY <1>5, <3>1, Least
  <2>2. m \in 1..Len(q) /\ q[m] > L /\ m \in Nat /\ m + d \in 1..Len(h)
    BY <1>0, <2>1
  <2>3. left = SubSeq(q, m, Len(q))
    <3>1. first = m /\ m # 0
      BY <2>1, <2>2
    <3>. HIDE DEF first, left
    <3>. QED BY <1>1, <3>1
  <2>14. m \in Nat /\ m >= 1 /\ d \in Nat /\ m <= Len(h) - d /\ Len(q) = Len(h) - d
        /\ Len(h) \in Nat /\ Len(q) \in Nat
    BY <1>0, <2>2
  <2>4. /\ left \in Seq(Stamp) /\ Len(left) = Len(q) - m + 1
        /\ \A i \in 1..(Len(q) - m + 1) : left[i] = q[i + m - 1]
    <3>1. q \in Seq(Stamp) /\ m \in 1..Len(q) /\ Len(q) \in Nat
      BY <1>0, <2>2
    <3>. HIDE DEF left, d, stay
    <3>. QED BY <2>3, <3>1
  <2>. HIDE DEF left, first
  <2>5. \A i \in 1..(m + d - 1) : h[i] < L + 1
    <3>. SUFFICES ASSUME NEW i \in 1..(m + d - 1) PROVE h[i] < L + 1
      OBVIOUS
    <3>1. CASE i <= d
      BY <1>0, <3>1
    <3>2. CASE i > d
      <4>1. i - d \in 1..Len(q) /\ i - d < m /\ (i - d) + d = i /\ i \in 1..Len(h)
        <5>. HIDE DEF d
        <5>. QED BY <2>14, <3>2
      <4>2. ~(i - d \in stay)
        BY <2>1, <2>2, <4>1
      <4>3. ~(q[i - d] > L) /\ q[i - d] = h[i]
        BY <1>0, <4>1, <4>2
      <4>. QED BY <1>0, <4>1, <4>3
    <3>. QED BY <1>0, <2>2, <3>1, <3>2
  <2>6. Gone(left, h) = m + d - 1
    BY <1>0, <2>2, <2>4 DEF Gone
  <2>7. Rest(left, h, L + 1)
    <3>1. \A i \in 1..Len(left) : left[i] = h[i + (m + d - 1)]
      <4>. SUFFICES ASSUME NEW i \in 1..Len(left) PROVE left[i] = h[i + (m + d - 1)]
        OBVIOUS
      <4>0. i \in Nat /\ i >= 1 /\ i <= Len(q) - m + 1
        BY <2>4, <2>14
      <4>1. i + m - 1 \in 1..Len(q) /\ (i + m - 1) + d = i + (m + d - 1)
        <5>. HIDE DEF d
        <5>. QED BY <2>14, <4>0
      <4>2. left[i] = q[i + m - 1]
        BY <2>4
      <4>3. q[i + m - 1] = h[(i + m - 1) + d]
        BY <1>0, <4>1, Zenon
      <4>. QED BY <4>1, <4>2, <4>3
    <3>2. Len(left) <= Len(h)
      BY <1>0, <2>2, <2>4
    <3>. QED BY <2>4, <2>5, <2>6, <3>1, <3>2 DEF Rest
  <2>8. m + d \in since /\ \A k \in since : m + d <= k
    <3>1. m + d \in since
      BY <1>3, <2>1, <2>2
    <3>2. ASSUME NEW k \in since PROVE m + d <= k
      <4>1. k \in Nat /\ ~(k \in 1..(m + d - 1))
        BY <1>0, <2>5
      <4>. QED BY <1>0, <2>2, <4>1
    <3>. QED BY <3>1, <3>2
  <2>9. Min(since) = m + d
    <3>1. since \subseteq Nat
      BY <1>0
    <3>. HIDE DEF since
    <3>. QED BY <2>8, <3>1, LeastIs
  <2>10. left # <<>> /\ Head(left) = left[1] /\ Last(left) = left[Len(left)]
    BY <1>0, <2>2, <2>4 DEF Last
  <2>11. left[1] = h[m + d] /\ left[Len(left)] = h[Len(h)]
    <3>1. 1 \in 1..(Len(q) - m + 1) /\ Len(left) \in 1..(Len(q) - m + 1)
      <4>1. Len(left) = Len(q) - m + 1
        BY <2>4
      <4>. HIDE DEF d
      <4>. QED BY <2>14, <4>1
    <3>2. left[1] = q[1 + m - 1] /\ left[Len(left)] = q[Len(left) + m - 1]
      BY <2>4, <3>1, Zenon
    <3>3. 1 + m - 1 = m /\ Len(left) + m - 1 = Len(q) /\ Len(q) \in 1..Len(q)
          /\ Len(q) + d = Len(h)
      <4>1. Len(left) = Len(q) - m + 1
        BY <2>4
      <4>. HIDE DEF d
      <4>. QED BY <2>14, <4>1
    <3>4. q[m] = h[m + d] /\ q[Len(q)] = h[Len(q) + d]
      BY <1>0, <2>2, <3>3, Zenon
    <3>. QED BY <3>2, <3>3, <3>4
  <2>12. since # {}
    BY <2>8
  <2>13. Head(left) = h[Min(since)] /\ Last(left) = h[Len(h)]
    BY <2>9, <2>10, <2>11
  <2>. HIDE DEF since
  <2>. QED BY <2>7, <2>10, <2>12, <2>13 DEF since, left
<1>. QED BY <1>4, <1>5

LEMMA FusionQueueHolds ==
    ASSUME Sent, FusionQueue, [OdometryNext]_odometryVars
    PROVE  FusionQueue'
<1>0. /\ heard \in Seq(Stamp) /\ incremental \in Seq(Stamp)
      /\ lidarOdomTime \in Stamp \union {None} /\ lidarOdomTime + 1 \in Nat
      /\ Rest(imuOdomQueue, heard, lidarOdomTime + 1)
  BY DEF Sent, FusionQueue, Stamp, None
<1>1. ASSUME DeliverIncremental PROVE FusionQueue'
  <2>. DEFINE t == Head(incremental)
              q == Append(imuOdomQueue, t)
  <2>1. /\ t \in Stamp /\ heard' = Append(heard, t) /\ lidarOdomTime' = lidarOdomTime
        /\ heard' \in Seq(Stamp)
    BY <1>0, <1>1 DEF DeliverIncremental, Fusion!ImuOdometryHandler
  <2>. HIDE DEF t
  <2>2. Rest(q, heard', lidarOdomTime + 1)
    BY <1>0, <2>1, RestAppend
  <2>3. CASE imuOdomQueue' = q
    BY <1>0, <2>1, <2>2, <2>3 DEF FusionQueue
  <2>4. CASE imuOdomQueue' = Fusion!PopOutdated(q)
    <3>. HIDE DEF q
    <3>1. Rest(Fusion!PopOutdated(q), heard', lidarOdomTime + 1)
      BY <1>0, <2>1, <2>2, PopOutdatedResult, Zenon
    <3>. QED BY <1>0, <2>1, <2>4, <3>1 DEF FusionQueue
  <2>. QED BY <1>1, <2>3, <2>4
           DEF DeliverIncremental, Fusion!ImuOdometryHandler, Fusion!Collect, Fusion!Fuse, t
<1>2. ASSUME NEW c \in Stamp, DeliverLidarOdometry(c) PROVE FusionQueue'
  <2>1. /\ c > lidarOdomTime /\ lidarOdomTime' = c /\ UNCHANGED <<imuOdomQueue, heard>>
    BY <1>2 DEF DeliverLidarOdometry, Fusion!LidarOdometryHandler
  <2>2. c + 1 \in Nat /\ c + 1 > lidarOdomTime + 1
    BY <1>0, <2>1 DEF Stamp, None
  <2>3. Rest(imuOdomQueue, heard, c + 1)
    BY <1>0, <2>2, RestLater
  <2>. QED BY <2>1, <2>3 DEF FusionQueue
<1>3. ASSUME UNCHANGED fusionVars PROVE FusionQueue'
  BY <1>3 DEF FusionQueue, fusionVars
<1>4. ASSUME NEW t \in Stamp, Measured(t) \/ Corrected(t) PROVE FusionQueue'
  BY <1>3, <1>4 DEF Measured, Corrected
<1>. QED BY <1>1, <1>2, <1>3, <1>4 DEF OdometryNext, odometryVars

LEMMA FusionInvariant == OdometrySpec => [](Queues /\ Sent /\ FusionQueue)
<1>1. OdometryInit => Sent /\ FusionQueue
  <2>. SUFFICES ASSUME OdometryInit PROVE Sent /\ FusionQueue
    OBVIOUS
  <2>1. /\ heard = <<>> /\ incremental = <<>> /\ imuOdomQueue = <<>>
        /\ lidarOdomTime = None
    BY DEF OdometryInit, Fusion!Init, Fusion!None, None
  <2>2. <<>> \in Seq(Stamp) /\ Len(<<>>) = 0 /\ DOMAIN <<>> = {} /\ Gone(<<>>, <<>>) = 0
    BY DEF Gone
  <2>3. Increasing(<<>>) /\ NotAfter(<<>>, received) /\ \A t : Rest(<<>>, <<>>, t)
    BY <2>2 DEF Increasing, NotAfter, Rest
  <2>. QED BY <2>1, <2>2, <2>3 DEF Sent, FusionQueue
<1>2. Queues /\ Sent /\ FusionQueue /\ [OdometryNext]_odometryVars => (Sent /\ FusionQueue)'
  BY SentHolds, FusionQueueHolds
<1>. QED BY <1>1, <1>2, OdometryImplementsSpec, QueuesInvariant, PTL DEF OdometrySpec

(* What TransformFusion publishes reaches from the first IMU odometry after  *)
(* the LiDAR's to the newest, whatever order the two topics, the corrections *)
(* and the measurements come in.                                             *)
THEOREM FusionReachesToNewest == OdometrySpec => FusesSinceLidarOdometry
<1>1. ASSUME Queues, Sent, Sent', FusionQueue, [OdometryNext]_odometryVars
      PROVE  [heard' # heard /\ lidarOdomTime # Fusion!None =>
                LET since == {i \in DOMAIN heard' : heard'[i] > lidarOdomTime}
                IN IF since # {}
                      THEN fused' = [front |-> heard'[Fusion!Min(since)],
                                     back |-> heard'[Fusion!Max(since)]]
                      ELSE fused'.front = Fusion!Undefined
             ]_<<lidarOdomTime, imuOdomQueue, heard, fused>>
  <2>. DEFINE since == {i \in DOMAIN heard' : heard'[i] > lidarOdomTime}
  <2>. SUFFICES ASSUME heard' # heard, lidarOdomTime # Fusion!None
                PROVE  IF since # {}
                          THEN fused' = [front |-> heard'[Min(since)],
                                         back |-> heard'[Max(since)]]
                          ELSE fused'.front = Fusion!Undefined
    BY SameOperators
  <2>1. DeliverIncremental
    <3>1. ASSUME NEW t \in Stamp, Measured(t) \/ Corrected(t) \/ DeliverLidarOdometry(t)
          PROVE  heard' = heard
      BY <3>1 DEF Measured, Corrected, DeliverLidarOdometry, Fusion!LidarOdometryHandler,
                  fusionVars
    <3>2. UNCHANGED odometryVars => heard' = heard
      BY DEF odometryVars, fusionVars
    <3>. QED BY <1>1, <3>1, <3>2 DEF OdometryNext
  <2>. DEFINE t == Head(incremental)
              q == Append(imuOdomQueue, t)
  <2>2. /\ heard' = Append(heard, t) /\ Fusion!Fuse(t) /\ t \in Stamp
        /\ heard' \in Seq(Stamp) /\ Increasing(heard')
    BY <1>1, <2>1 DEF DeliverIncremental, Fusion!ImuOdometryHandler, Fusion!Collect, Sent
  <2>. HIDE DEF t
  <2>3. /\ imuOdomQueue' = Fusion!PopOutdated(q)
        /\ fused' = IF imuOdomQueue' = <<>>
                       THEN [front |-> Fusion!Undefined, back |-> Fusion!Undefined]
                       ELSE [front |-> Head(imuOdomQueue'), back |-> Last(imuOdomQueue')]
    BY <2>2, SameOperators DEF Fusion!Fuse, q
  <2>4. Rest(q, heard', lidarOdomTime + 1) /\ lidarOdomTime \in Stamp \union {None}
    <3>1. lidarOdomTime + 1 \in Nat
      BY <1>1 DEF FusionQueue, Stamp, None
    <3>. QED BY <1>1, <2>2, <3>1, RestAppend DEF FusionQueue, Sent
  <2>. HIDE DEF q
  <2>5. /\ since = {} => imuOdomQueue' = <<>>
        /\ since # {} => /\ imuOdomQueue' # <<>>
                         /\ Head(imuOdomQueue') = heard'[Min(since)]
                         /\ Last(imuOdomQueue') = heard'[Len(heard')]
    BY <2>2, <2>3, <2>4, PopOutdatedResult, Zenon
  <2>6. since # {} => Max(since) = Len(heard')
    <3>. SUFFICES ASSUME NEW k \in since PROVE Max(since) = Len(heard')
      OBVIOUS
    <3>1. /\ DOMAIN heard' = 1..Len(heard') /\ Len(heard') \in Nat
          /\ \A i \in 1..Len(heard') : heard'[i] \in Nat
          /\ lidarOdomTime \in Int
      BY <2>2, <2>4, StampsAreNumbers DEF Stamp, None
    <3>2. Len(heard') \in since
      <4>1. k = Len(heard') \/ heard'[k] < heard'[Len(heard')]
        BY <2>2, <3>1 DEF Increasing
      <4>. QED BY <3>1, <4>1
    <3>3. \A i \in since : Len(heard') >= i /\ i \in Nat
      BY <3>1
    <3>. HIDE DEF since
    <3>4. /\ Max(since) \in since /\ Max(since) >= Len(heard')
      BY <3>2, <3>3 DEF Max
    <3>. QED BY <3>1, <3>3, <3>4
  <2>7. CASE since = {}
    BY <2>3, <2>5, <2>7
  <2>8. CASE since # {}
    BY <2>3, <2>5, <2>6, <2>8
  <2>. QED BY <2>7, <2>8
<1>. QED BY <1>1, FusionInvariant, PTL DEF OdometrySpec, FusesSinceLidarOdometry,
          Fusion!FusesSinceLidarOdometry
=============================================================================
