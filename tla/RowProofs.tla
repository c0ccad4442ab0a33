------------------------------- MODULE RowProofs -------------------------------
(***************************************************************************)
(* What the operations of ContractRow do to the queue and the state, and   *)
(* what becomes of a sum over a queue: the lemmas that the proofs about    *)
(* ContractLife and Platform share.                                        *)
(***************************************************************************)
EXTENDS ContractRow, TLAPS, SequenceTheorems, FiniteSetTheorems

(***************************************************************************)
(* Sequences of whatever: the messages of the kinds have no common shape.  *)
(***************************************************************************)
OfSome(s) == \E M : s \in Seq(M)
Elements(s) == {s[i] : i \in DOMAIN s}

LEMMA Appended ==
  ASSUME NEW s, OfSome(s), NEW m
  PROVE  /\ OfSome(Append(s, m))
         /\ Len(Append(s, m)) = Len(s) + 1
         /\ DOMAIN Append(s, m) = 1..(Len(s) + 1)
         /\ DOMAIN s = 1..Len(s) /\ Len(s) \in Nat
         /\ \A i \in 1..Len(s) : Append(s, m)[i] = s[i]
         /\ Append(s, m)[Len(s) + 1] = m
         /\ Elements(Append(s, m)) = Elements(s) \cup {m}
  <1>1. PICK S : s \in Seq(S)
    BY DEF OfSome
  <1>2. s \in Seq(S \cup {m})
    BY <1>1, SeqMonotonic
  <1>3. /\ Append(s, m) \in Seq(S \cup {m})
        /\ Len(Append(s, m)) = Len(s) + 1
        /\ \A i \in 1..Len(s) : Append(s, m)[i] = s[i]
        /\ Append(s, m)[Len(s) + 1] = m
    BY <1>2
  <1>4. /\ DOMAIN s = 1..Len(s) /\ Len(s) \in Nat
        /\ DOMAIN Append(s, m) = 1..(Len(s) + 1)
    BY <1>2, <1>3
  <1>5. ASSUME NEW x \in Elements(Append(s, m))
        PROVE  x \in Elements(s) \cup {m}
    <2>1. PICK i \in 1..(Len(s) + 1) : Append(s, m)[i] = x
      BY <1>4, <1>5 DEF Elements
    <2> QED
      BY <1>3, <1>4, <2>1 DEF Elements
  <1>6. Elements(s) \cup {m} \subseteq Elements(Append(s, m))
    BY <1>3, <1>4 DEF Elements
  <1> QED
    BY <1>3, <1>4, <1>5, <1>6 DEF OfSome

LEMMA Joined ==
  ASSUME NEW s, OfSome(s), NEW t, OfSome(t)
  PROVE  /\ OfSome(s \o t)
         /\ Elements(s \o t) = Elements(s) \cup Elements(t)
  <1>1. PICK S : s \in Seq(S)
    BY DEF OfSome
  <1>2. PICK T : t \in Seq(T)
    BY DEF OfSome
  <1>3. s \in Seq(S \cup T) /\ t \in Seq(S \cup T)
    BY <1>1, <1>2, SeqMonotonic
  <1>4. /\ s \o t \in Seq(S \cup T)
        /\ Len(s \o t) = Len(s) + Len(t)
        /\ \A i \in 1..(Len(s) + Len(t)) :
             (s \o t)[i] = IF i <= Len(s) THEN s[i] ELSE t[i - Len(s)]
    BY <1>3, ConcatProperties
  <1>5. /\ DOMAIN s = 1..Len(s) /\ Len(s) \in Nat
        /\ DOMAIN t = 1..Len(t) /\ Len(t) \in Nat
        /\ DOMAIN (s \o t) = 1..(Len(s) + Len(t))
    BY <1>3, <1>4
  <1>6. ASSUME NEW x \in Elements(s \o t)
        PROVE  x \in Elements(s) \cup Elements(t)
    BY <1>4, <1>5, <1>6 DEF Elements
  <1>7. ASSUME NEW x \in Elements(s)
        PROVE  x \in Elements(s \o t)
    BY <1>4, <1>5, <1>7 DEF Elements
  <1>8. ASSUME NEW x \in Elements(t)
        PROVE  x \in Elements(s \o t)
    <2>1. PICK i \in 1..Len(t) : t[i] = x
      BY <1>5, <1>8 DEF Elements
    <2>2. Len(s) + i \in 1..(Len(s) + Len(t)) /\ (s \o t)[Len(s) + i] = x
      BY <1>4, <1>5, <2>1
    <2> QED
      BY <1>5, <2>2 DEF Elements
  <1> QED
    BY <1>4, <1>6, <1>7, <1>8 DEF OfSome

LEMMA Tailed ==
  ASSUME NEW s, OfSome(s), s # << >>
  PROVE  /\ OfSome(Tail(s))
         /\ Elements(s) = Elements(Tail(s)) \cup {Head(s)}
  <1>1. PICK S : s \in Seq(S)
    BY DEF OfSome
  <1>2. /\ Tail(s) \in Seq(S) /\ Len(Tail(s)) = Len(s) - 1
        /\ \A i \in 1..Len(Tail(s)) : Tail(s)[i] = s[i + 1]
        /\ Head(s) = s[1]
    BY <1>1, HeadTailProperties
  <1>3. /\ DOMAIN s = 1..Len(s) /\ Len(s) \in Nat \ {0}
        /\ DOMAIN Tail(s) = 1..(Len(s) - 1)
    BY <1>1, <1>2
  <1>4. ASSUME NEW x \in Elements(s), x # Head(s)
        PROVE  x \in Elements(Tail(s))
    <2>1. PICK i \in 1..Len(s) : s[i] = x
      BY <1>3, <1>4 DEF Elements
    <2>2. i - 1 \in 1..(Len(s) - 1) /\ Tail(s)[i - 1] = x
      BY <1>2, <1>3, <1>4, <2>1
    <2> QED
      BY <1>3, <2>2 DEF Elements
  <1>5. ASSUME NEW x \in Elements(Tail(s))
        PROVE  x \in Elements(s)
    <2>1. PICK i \in 1..(Len(s) - 1) : Tail(s)[i] = x
      BY <1>3, <1>5 DEF Elements
    <2>2. i + 1 \in 1..Len(s) /\ s[i + 1] = x
      BY <1>2, <1>3, <2>1
    <2> QED
      BY <1>3, <2>2 DEF Elements
  <1>6. Head(s) \in Elements(s)
    BY <1>2, <1>3 DEF Elements
  <1> QED
    BY <1>2, <1>4, <1>5, <1>6 DEF OfSome

LEMMA Empty == OfSome(<< >>) /\ Elements(<< >>) = {}
  BY EmptySeq DEF OfSome, Elements

LEMMA OneOrTwo ==
  ASSUME NEW a, NEW b
  PROVE  /\ OfSome(<<a>>) /\ Elements(<<a>>) = {a}
         /\ OfSome(<<a, b>>) /\ Elements(<<a, b>>) = {a, b}
  <1>1. OfSome(<<a>>) /\ Elements(<<a>>) = {a}
    <2> DEFINE none == << >>
               one  == <<a>>
    <2>1. OfSome(none) /\ Elements(none) = {} /\ one = Append(none, a)
      BY Empty
    <2> HIDE DEF none, one
    <2>2. OfSome(one) /\ Elements(one) = {} \cup {a}
      BY <2>1, Appended
    <2> QED
      BY <2>2 DEF one
  <1>2. OfSome(<<a, b>>) /\ Elements(<<a, b>>) = {a, b}
    <2> DEFINE one == <<a>>
               two == <<a, b>>
    <2>1. OfSome(one) /\ Elements(one) = {a} /\ two = Append(one, b)
      BY <1>1
    <2> HIDE DEF one, two
    <2>2. OfSome(two) /\ Elements(two) = {a} \cup {b}
      BY <2>1, Appended
    <2> QED
      BY <2>2 DEF two
  <1> QED
    BY <1>1, <1>2
-----------------------------------------------------------------------------
(***************************************************************************)
(* What a step does to the queue: the messages that are held, and which    *)
(* of them can still come.                                                 *)
(***************************************************************************)
Queues == OfSome(ready) /\ OfSome(unacked)
LeftBehind == Elements(unacked)
Held == Elements(ready) \cup LeftBehind

\* The step handles the first message, and leaves it or not.
Handles == /\ Queues'
           /\ Head(ready) \in Held
           /\ Held \ {Head(ready)} \subseteq Held'
           /\ Held' \subseteq Held

LEMMA Acks ==
  ASSUME Queues, ready # << >>, Ack
  PROVE  Handles /\ LeftBehind' = LeftBehind
  BY Tailed DEF Queues, Ack, Handles, Held, LeftBehind

LEMMA Leaves ==
  ASSUME Queues, ready # << >>, LeaveUnacked
  PROVE  Handles /\ Held' = Held /\ LeftBehind' = LeftBehind \cup {Head(ready)}
  <1>1. /\ OfSome(ready') /\ Elements(ready) = Elements(ready') \cup {Head(ready)}
        /\ OfSome(unacked') /\ Elements(unacked') = Elements(unacked) \cup {Head(ready)}
    BY Tailed, Appended DEF Queues, LeaveUnacked, Message
  <1> QED
    BY <1>1 DEF Queues, Handles, Held, LeftBehind

LEMMA Redelivered ==
  ASSUME Queues, ready' = unacked \o ready, unacked' = << >>
  PROVE  Queues' /\ Held' = Held /\ LeftBehind' = {}
  BY Joined, Empty DEF Queues, Held, LeftBehind

LEMMA Acknowledges ==
  ASSUME Queues, ready # << >>, Acknowledge
  PROVE  Handles /\ LeftBehind' \subseteq LeftBehind
  <1>1. CASE Ack
    BY <1>1, Acks
  <1>2. CASE DeliveredAgain
    BY <1>2, Redelivered, Tailed DEF DeliveredAgain, Handles, Held, Queues
  <1> QED
    BY <1>1, <1>2 DEF Acknowledge

LEMMA Publishes ==
  ASSUME Queues, NEW m, ready' = Append(ready, m), UNCHANGED unacked
  PROVE  Queues' /\ Held' = Held \cup {m} /\ LeftBehind' = LeftBehind
         /\ Elements(ready') = Elements(ready) \cup {m}
  <1>1. OfSome(ready') /\ Elements(ready') = Elements(ready) \cup {m}
    BY Appended DEF Queues
  <1> QED
    BY <1>1 DEF Queues, Held, LeftBehind

(***************************************************************************)
(* A step touches messages of some types only: the others stay as they     *)
(* are, and with the broker or with the receiver.                          *)
(***************************************************************************)
Touches(types) ==
  /\ Queues'
  /\ \A m \in (Held \ Held') \cup (Held' \ Held) \cup (LeftBehind' \ LeftBehind) : m.type \in types

LEMMA Handled ==
  ASSUME Queues, NEW type, Receiving(type), Ack \/ LeaveUnacked \/ Acknowledge
  PROVE  Touches({type}) /\ Head(ready) \in Held
  <1>1. ready # << >> /\ Head(ready).type = type
    BY DEF Receiving
  <1> QED
    BY <1>1, Acks, Leaves, Acknowledges DEF Touches, Handles

LEMMA Published ==
  ASSUME Queues, NEW m, ready' = Append(ready, m), UNCHANGED unacked
  PROVE  Touches({m.type})
  BY Publishes DEF Touches

LEMMA Rested ==
  ASSUME Queues, UNCHANGED queue
  PROVE  Touches({})
  BY DEF Touches, Queues, Held, LeftBehind, queue

RowTypes == {"launch", "deployed", "transactionCompleted"}

LEMMA RevertTouches ==
  ASSUME Queues, NEW i \in 1..MaxTxs, Reverted(i)
  PROVE  Touches(RowTypes)
  <1> DEFINE a    == Deployed(FALSE)
             b    == TxFailed(i)
             both == <<a, b>>
             one  == <<b>>
             told == IF chain[i].call = "deploy" THEN both ELSE one
  <1>1. UNCHANGED unacked /\ ready' = ready \o told
    BY DEF Reverted, Reverts
  <1>2. a.type \in RowTypes /\ b.type \in RowTypes
    BY DEF Deployed, TxFailed, RowTypes
  <1> HIDE DEF a, b
  <1>3. OfSome(told) /\ Elements(told) \subseteq {a, b}
    <2>1. /\ OfSome(both) /\ Elements(both) = {a, b}
          /\ OfSome(one) /\ Elements(one) = {b}
      BY OneOrTwo
    <2> HIDE DEF both, one
    <2> QED
      BY <2>1
  <1> HIDE DEF told
  <1>4. OfSome(ready') /\ Elements(ready') = Elements(ready) \cup Elements(told)
    BY <1>1, <1>3, Joined DEF Queues
  <1>5. Queues' /\ LeftBehind' = LeftBehind /\ Held' = Held \cup Elements(told)
    BY <1>1, <1>4 DEF Queues, Held, LeftBehind
  <1> QED
    BY <1>2, <1>3, <1>5 DEF Touches

LEMMA RowTouches ==
  ASSUME Queues, RowNext
  PROVE  /\ Touches(RowTypes)
         /\ UNCHANGED <<kind, now>>
         /\ state' \in {state, "WAITING_FOR_DEPLOYMENT", "POSTPONED"}
  <1>1. CASE RowReceives
    <2>1. PICK type \in RowTypes : Receiving(type) /\ (Ack \/ LeaveUnacked \/ Acknowledge)
      BY <1>1 DEF RowReceives, LaunchPostponed, LaunchIgnored, LaunchSends, LaunchRaises,
                  DeployedIgnored, DeployedPostponed, DeployedRejected,
                  TransactionFailed, TransactionUnknown, RowTypes
    <2>2. Touches(RowTypes)
      BY <2>1, Handled DEF Touches
    <2>3. /\ UNCHANGED <<kind, now>>
          /\ state' \in {state, "WAITING_FOR_DEPLOYMENT", "POSTPONED"}
      BY <1>1 DEF RowReceives, LaunchPostponed, LaunchIgnored, LaunchSends, LaunchRaises,
                  DeployedIgnored, DeployedPostponed, DeployedRejected, Postpone,
                  TransactionFailed, TransactionUnknown
    <2> QED
      BY <2>2, <2>3
  <1>2. CASE Restart
    BY <1>2, Redelivered DEF Restart, Touches
  <1>3. ASSUME NEW i \in 1..MaxTxs, DeployMined(i)
        PROVE  Touches(RowTypes) /\ UNCHANGED <<state, kind, now>>
    <2> DEFINE m == Deployed(TRUE)
    <2>1. m.type \in RowTypes
      BY DEF Deployed, RowTypes
    <2>2. ready' = Append(ready, m) /\ UNCHANGED <<unacked, state, kind, now>>
      BY <1>3 DEF DeployMined, Mined
    <2> HIDE DEF m
    <2> QED
      BY <2>1, <2>2, Published DEF Touches
  <1>4. ASSUME NEW i \in 1..MaxTxs, Reverted(i)
        PROVE  Touches(RowTypes) /\ UNCHANGED <<state, kind, now>>
    BY <1>4, RevertTouches DEF Reverted, Reverts
  <1> QED
    BY <1>1, <1>2, <1>3, <1>4 DEF RowNext

\* The row sends the deployment only, and settles what is mined or has failed.
LEMMA RowSends ==
  ASSUME RowNext
  PROVE  \/ UNCHANGED chain
         \/ Send("deploy", {})
         \/ \E i \in DOMAIN chain : chain' = [chain EXCEPT ![i] = Settled]
  BY DEF RowNext, RowReceives, LaunchPostponed, LaunchIgnored, LaunchSends, LaunchRaises,
         DeployedIgnored, DeployedPostponed, DeployedRejected, TransactionFailed,
         TransactionUnknown, Restart, DeployMined, Mined, Pending, Reverted, Reverts,
         network
-----------------------------------------------------------------------------
(***************************************************************************)
(* Sums, which are numbers of pairs.                                       *)
(***************************************************************************)
LEMMA UnitsAre ==
  ASSUME NEW S, NEW w \in [S -> Nat]
  PROVE  /\ \A p \in Units(w) : p = <<p[1], p[2]>> /\ p[1] \in S /\ p[2] \in 1..w[p[1]]
         /\ \A x \in S : \A k \in 1..w[x] : <<x, k>> \in Units(w)
  BY DEF Units

LEMMA UnitsFinite ==
  ASSUME NEW S, IsFiniteSet(S), NEW w \in [S -> Nat]
  PROVE  IsFiniteSet(Units(w)) /\ Total(w) \in Nat
  <1> DEFINE f == [x \in S |-> {x} \X (1..w[x])]
             T == {{x} \X (1..w[x]) : x \in S}
  <1>1. f \in Surjection(S, T)
    BY DEF Surjection
  <1>2. IsFiniteSet(T)
    BY <1>1, FS_Surjection
  <1>3. ASSUME NEW x \in S PROVE IsFiniteSet({x} \X (1..w[x]))
    <2>1. IsFiniteSet({x})
      BY FS_Singleton
    <2>2. IsFiniteSet(1..w[x])
      BY FS_Interval
    <2> QED
      BY <2>1, <2>2, FS_Product
  <1>4. Units(w) = UNION T
    BY DEF Units
  <1>5. IsFiniteSet(UNION T)
    BY <1>2, <1>3, FS_UNION
  <1> QED
    BY <1>4, <1>5, FS_CardinalityType DEF Total

LEMMA TotalOfOne ==
  ASSUME NEW x, NEW w \in [{x} -> Nat]
  PROVE  Total(w) = w[x]
  <1>1. Units(w) = {x} \X (1..w[x])
    BY DEF Units
  <1>2. IsFiniteSet({x}) /\ Cardinality({x}) = 1
    BY FS_Singleton
  <1>3. IsFiniteSet(1..w[x]) /\ Cardinality(1..w[x]) = w[x]
    BY FS_Interval
  <1>4. Cardinality({x} \X (1..w[x])) = w[x]
    <2> DEFINE A == {x}
               B == 1..w[x]
    <2>1. IsFiniteSet(A) /\ Cardinality(A) = 1 /\ IsFiniteSet(B) /\ Cardinality(B) = w[x]
      BY <1>2, <1>3
    <2> HIDE DEF A, B
    <2>2. Cardinality(A \X B) = Cardinality(A) * Cardinality(B)
      BY <2>1, FS_Product
    <2>3. Cardinality(A \X B) = w[x]
      BY <2>1, <2>2
    <2> QED
      BY <2>3 DEF A, B
  <1> QED
    BY <1>1, <1>4 DEF Total

LEMMA IntervalsFinite ==
  ASSUME NEW a \in Int, NEW b \in Int
  PROVE  IsFiniteSet(a..b)
  BY FS_Interval

LEMMA TotalOfParts ==
  ASSUME NEW S, IsFiniteSet(S), NEW T, IsFiniteSet(T), S \cap T = {},
         NEW w \in [S \cup T -> Nat], NEW u \in [S -> Nat], NEW v \in [T -> Nat],
         \A x \in S : w[x] = u[x], \A x \in T : w[x] = v[x]
  PROVE  Total(w) = Total(u) + Total(v)
  <1>1. Units(w) = Units(u) \cup Units(v)
    BY DEF Units
  <1>2. Units(u) \cap Units(v) = {}
    BY UnitsAre
  <1>3. IsFiniteSet(Units(u)) /\ IsFiniteSet(Units(v)) /\ Total(u) \in Nat /\ Total(v) \in Nat
    BY UnitsFinite
  <1>4. Cardinality(Units(u) \cup Units(v))
          = Cardinality(Units(u)) + Cardinality(Units(v)) - Cardinality({})
    BY <1>2, <1>3, FS_Union
  <1> QED
    BY <1>1, <1>3, <1>4, FS_EmptySet DEF Total

Weighs(w, S)  == w \in [S -> Nat]
Apart(S, T)   == IsFiniteSet(S) /\ IsFiniteSet(T) /\ S \cap T = {}
Onto(f, S, T) == IsFiniteSet(S) /\ f \in Bijection(S, T)
Carries(f, S, w, v) == \A x \in S : v[f[x]] = w[x]

LEMMA TotalSplit ==
  ASSUME NEW S, NEW T, NEW w, Apart(S, T), Weighs(w, S \cup T)
  PROVE  Total(w) = Total([x \in S |-> w[x]]) + Total([x \in T |-> w[x]])
  <1> DEFINE u == [x \in S |-> w[x]]
             v == [x \in T |-> w[x]]
  <1>1. w \in [S \cup T -> Nat] /\ u \in [S -> Nat] /\ v \in [T -> Nat]
    BY DEF Weighs
  <1>2. (\A x \in S : w[x] = u[x]) /\ (\A x \in T : w[x] = v[x])
    OBVIOUS
  <1> HIDE DEF u, v
  <1>3. Total(w) = Total(u) + Total(v)
    BY <1>1, <1>2, TotalOfParts DEF Apart
  <1> QED
    BY <1>3 DEF u, v

LEMMA TotalMovedBy ==
  ASSUME NEW S, IsFiniteSet(S), NEW T, NEW f \in Bijection(S, T),
         NEW w \in [S -> Nat], NEW v \in [T -> Nat], \A x \in S : v[f[x]] = w[x]
  PROVE  Total(v) = Total(w)
  <1> DEFINE g == [p \in Units(w) |-> <<f[p[1]], p[2]>>]
  <1>1. /\ f \in [S -> T] /\ \A x, y \in S : f[x] = f[y] => x = y
        /\ \A y \in T : \E x \in S : f[x] = y
    BY DEF Bijection, Injection, Surjection, IsInjective
  <1>2. ASSUME NEW p \in Units(w) PROVE g[p] \in Units(v)
    BY <1>1, <1>2, UnitsAre
  <1>3. ASSUME NEW p \in Units(w), NEW q \in Units(w), g[p] = g[q] PROVE p = q
    <2>1. p = <<p[1], p[2]>> /\ q = <<q[1], q[2]>> /\ p[1] \in S /\ q[1] \in S
      BY UnitsAre
    <2>2. f[p[1]] = f[q[1]] /\ p[2] = q[2]
      BY <1>3
    <2> QED
      BY <1>1, <2>1, <2>2
  <1>4. ASSUME NEW q \in Units(v) PROVE \E p \in Units(w) : g[p] = q
    <2>1. q = <<q[1], q[2]>> /\ q[1] \in T /\ q[2] \in 1..v[q[1]]
      BY UnitsAre
    <2>2. PICK x \in S : f[x] = q[1]
      BY <1>1, <2>1
    <2>3. <<x, q[2]>> \in Units(w)
      BY <2>1, <2>2, UnitsAre
    <2> QED
      BY <2>1, <2>2, <2>3
  <1>5. g \in Bijection(Units(w), Units(v))
    BY <1>2, <1>3, <1>4 DEF Bijection, Injection, Surjection, IsInjective
  <1>6. IsFiniteSet(Units(w))
    BY UnitsFinite
  <1> QED
    BY <1>5, <1>6, FS_Bijection DEF Total, ExistsBijection

LEMMA TotalMoved ==
  ASSUME NEW S, NEW T, NEW f, NEW w, NEW v,
         Onto(f, S, T), Weighs(w, S), Weighs(v, T), Carries(f, S, w, v)
  PROVE  Total(v) = Total(w)
  BY TotalMovedBy DEF Onto, Weighs, Carries

LEMMA TotalChanged ==
  ASSUME NEW S, IsFiniteSet(S), NEW w \in [S -> Nat], NEW x \in S,
         NEW v \in [S -> Nat], \A y \in S \ {x} : v[y] = w[y]
  PROVE  Total(v) = Total(w) - w[x] + v[x]
  <1> DEFINE R    == S \ {x}
             rest == [y \in R |-> w[y]]
             old  == [y \in {x} |-> w[y]]
             new  == [y \in {x} |-> v[y]]
  <1>1. IsFiniteSet(R) /\ IsFiniteSet({x}) /\ R \cap {x} = {} /\ S = R \cup {x}
    <2>1. IsFiniteSet(R)
      BY FS_RemoveElement
    <2>2. IsFiniteSet({x})
      BY FS_Singleton
    <2> QED
      BY <2>1, <2>2
  <1>2. rest \in [R -> Nat] /\ old \in [{x} -> Nat] /\ new \in [{x} -> Nat]
    OBVIOUS
  <1>3. /\ \A y \in R : w[y] = rest[y] /\ v[y] = rest[y]
        /\ \A y \in {x} : w[y] = old[y] /\ v[y] = new[y]
    OBVIOUS
  <1>4. old[x] = w[x] /\ new[x] = v[x]
    OBVIOUS
  <1> HIDE DEF R, rest, old, new
  <1>5. w \in [R \cup {x} -> Nat] /\ v \in [R \cup {x} -> Nat]
    BY <1>1
  <1>6. Total(w) = Total(rest) + Total(old)
    BY <1>1, <1>2, <1>3, <1>5, TotalOfParts
  <1>7. Total(v) = Total(rest) + Total(new)
    BY <1>1, <1>2, <1>3, <1>5, TotalOfParts
  <1>8. Total(old) = w[x] /\ Total(new) = v[x]
    BY <1>2, <1>4, TotalOfOne
  <1>9. Total(rest) \in Nat
    BY <1>1, <1>2, UnitsFinite
  <1> QED
    BY <1>6, <1>7, <1>8, <1>9

LEMMA TotalOfNone ==
  ASSUME NEW w, DOMAIN w = {}
  PROVE  Total(w) = 0
  BY FS_EmptySet DEF Total, Units

(***************************************************************************)
(* Sums over a queue, each message having its weight.                      *)
(***************************************************************************)
LEMMA TotalAppended ==
  ASSUME NEW q, OfSome(q), NEW m,
         NEW w \in [DOMAIN q -> Nat], NEW v \in [DOMAIN Append(q, m) -> Nat],
         \A i \in DOMAIN q : v[i] = w[i]
  PROVE  Total(v) = Total(w) + v[Len(q) + 1]
  <1> DEFINE last == Len(q) + 1
             D    == DOMAIN q
             L    == {last}
             new  == [i \in L |-> v[i]]
  <1>1. /\ Len(q) \in Nat /\ D = 1..Len(q) /\ DOMAIN Append(q, m) = 1..last
        /\ D \cap L = {} /\ 1..last = D \cup L
    BY Appended
  <1>2. IsFiniteSet(D)
    BY <1>1, IntervalsFinite
  <1>3. IsFiniteSet(L)
    BY FS_Singleton
  <1>4. v \in [D \cup L -> Nat] /\ w \in [D -> Nat] /\ \A i \in D : v[i] = w[i]
    BY <1>1
  <1>5. new \in [L -> Nat] /\ new[last] = v[last] /\ \A i \in L : v[i] = new[i]
    BY <1>4
  <1> HIDE DEF D, new
  <1>6. Total(new) = v[last]
    BY <1>5, TotalOfOne
  <1> HIDE DEF L
  <1>7. Total(v) = Total(w) + Total(new)
    <2>1. w = [i \in D |-> v[i]]
      BY <1>4
    <2>2. Apart(D, L) /\ Weighs(v, D \cup L)
      BY <1>1, <1>2, <1>3, <1>4 DEF Apart, Weighs
    <2>3. Total(v) = Total([i \in D |-> v[i]]) + Total([i \in L |-> v[i]])
      BY <2>2, TotalSplit
    <2> QED
      BY <2>1, <2>3 DEF new
  <1> QED
    BY <1>6, <1>7

LEMMA TotalTailed ==
  ASSUME NEW q, OfSome(q), q # << >>,
         NEW w \in [DOMAIN q -> Nat], NEW v \in [DOMAIN Tail(q) -> Nat],
         \A i \in DOMAIN Tail(q) : v[i] = w[i + 1]
  PROVE  1 \in DOMAIN q /\ Head(q) = q[1] /\ Total(w) = w[1] + Total(v)
  <1>1. PICK S : q \in Seq(S)
    BY DEF OfSome
  <1> DEFINE n   == Len(q)
             D   == 1..(n - 1)
             L   == {1}
             T   == 2..n
             one == [i \in L |-> w[i]]
             up  == [i \in T |-> w[i]]
             f   == [i \in D |-> i + 1]
  <1>2. /\ n \in Nat \ {0} /\ DOMAIN q = 1..n /\ DOMAIN Tail(q) = D
        /\ Head(q) = q[1]
    BY <1>1, HeadTailProperties
  <1> HIDE DEF n
  <1>3. L \cap T = {} /\ 1..n = L \cup T /\ 1 \in 1..n
    BY <1>2
  <1>4. IsFiniteSet(D) /\ IsFiniteSet(T)
    <2>1. n \in Int /\ n - 1 \in Int /\ 1 \in Int /\ 2 \in Int
      BY <1>2
    <2> QED
      BY <2>1, IntervalsFinite
  <1>5. IsFiniteSet(L)
    BY FS_Singleton
  <1>6. w \in [L \cup T -> Nat] /\ v \in [D -> Nat]
    BY <1>2, <1>3
  <1>7. /\ one \in [L -> Nat] /\ one[1] = w[1] /\ \A i \in L : w[i] = one[i]
        /\ up \in [T -> Nat] /\ \A i \in T : w[i] = up[i]
    BY <1>6
  <1>8. f \in Bijection(D, T)
    <2>1. \A j \in T : j - 1 \in D /\ f[j - 1] = j
      BY <1>2
    <2>2. f \in [D -> T] /\ \A i, j \in D : f[i] = f[j] => i = j
      BY <1>2
    <2> QED
      BY <2>1, <2>2 DEF Bijection, Injection, Surjection, IsInjective
  <1>9. \A i \in D : up[f[i]] = v[i]
    <2>1. \A i \in D : f[i] = i + 1 /\ i + 1 \in T /\ v[i] = w[i + 1]
      BY <1>2
    <2> QED
      BY <2>1
  <1> HIDE DEF one, up, f, T, D
  <1>10. Total(one) = w[1]
    BY <1>7, TotalOfOne
  <1> HIDE DEF L
  <1>11. Total(up) = Total(v)
    <2>1. Weighs(up, T) /\ Weighs(v, D)
      BY <1>6, <1>7 DEF Weighs
    <2>2. Onto(f, D, T) /\ Carries(f, D, v, up)
      BY <1>4, <1>8, <1>9 DEF Onto, Carries
    <2> QED
      BY <2>1, <2>2, TotalMoved
  <1>12. Total(w) = Total(one) + Total(up)
    <2>1. Apart(L, T) /\ Weighs(w, L \cup T)
      BY <1>3, <1>4, <1>5, <1>6 DEF Apart, Weighs
    <2> QED
      BY <2>1, TotalSplit DEF one, up
  <1> QED
    BY <1>2, <1>3, <1>10, <1>11, <1>12

Runs(n, k, u, v, w) ==
  /\ n \in Nat /\ k \in Nat
  /\ Weighs(u, 1..n) /\ Weighs(v, 1..k) /\ Weighs(w, 1..(n + k))
  /\ \A i \in 1..n : w[i] = u[i]
  /\ \A i \in 1..k : w[n + i] = v[i]

LEMMA TotalOfRuns ==
  ASSUME NEW n, NEW k, NEW u, NEW v, NEW w, Runs(n, k, u, v, w)
  PROVE  Total(w) = Total(u) + Total(v)
  <1> USE DEF Runs
  <1> DEFINE D  == 1..n
             E  == 1..k
             T  == (n + 1)..(n + k)
             lo == [i \in D |-> w[i]]
             up == [i \in T |-> w[i]]
             f  == [i \in E |-> n + i]
  <1>1. D \cap T = {} /\ 1..(n + k) = D \cup T
    OBVIOUS
  <1>2. IsFiniteSet(D) /\ IsFiniteSet(E) /\ IsFiniteSet(T)
    <2>1. 1 \in Int /\ n \in Int /\ k \in Int /\ n + 1 \in Int /\ n + k \in Int
      OBVIOUS
    <2> QED
      BY <2>1, IntervalsFinite
  <1>3. Weighs(up, T) /\ Weighs(w, D \cup T) /\ lo = u
    BY <1>1 DEF Weighs
  <1>4. f \in Bijection(E, T)
    <2>1. \A j \in T : j - n \in E /\ f[j - n] = j
      OBVIOUS
    <2>2. f \in [E -> T] /\ \A i, j \in E : f[i] = f[j] => i = j
      OBVIOUS
    <2> QED
      BY <2>1, <2>2 DEF Bijection, Injection, Surjection, IsInjective
  <1>5. \A i \in E : up[f[i]] = v[i]
    <2>1. \A i \in E : f[i] = n + i /\ n + i \in T
      OBVIOUS
    <2> QED
      BY <2>1
  <1>6. Apart(D, T)
    BY <1>1, <1>2 DEF Apart
  <1>7. Onto(f, E, T) /\ Carries(f, E, v, up) /\ Weighs(v, E)
    BY <1>2, <1>4, <1>5 DEF Onto, Carries
  <1> HIDE DEF up, lo, f, T, D, E
  <1>8. Total(up) = Total(v)
    BY <1>3, <1>7, TotalMoved
  <1>9. Total(w) = Total(lo) + Total(up)
    BY <1>3, <1>6, TotalSplit DEF lo, up
  <1> QED
    BY <1>3, <1>8, <1>9

WeighJoined(q, r, u, v, w) ==
  /\ OfSome(q) /\ OfSome(r)
  /\ Weighs(u, DOMAIN q) /\ Weighs(v, DOMAIN r) /\ Weighs(w, DOMAIN (q \o r))
  /\ \A i \in DOMAIN q : w[i] = u[i]
  /\ \A i \in DOMAIN r : w[Len(q) + i] = v[i]

LEMMA TotalJoined ==
  ASSUME NEW q, NEW r, NEW u, NEW v, NEW w, WeighJoined(q, r, u, v, w)
  PROVE  Total(w) = Total(u) + Total(v)
  <1> USE DEF WeighJoined
  <1>1. PICK Q, R : q \in Seq(Q) /\ r \in Seq(R)
    BY DEF OfSome
  <1>2. q \in Seq(Q \cup R) /\ r \in Seq(Q \cup R)
    BY <1>1, SeqMonotonic
  <1> DEFINE n == Len(q)
             k == Len(r)
  <1>3. /\ n \in Nat /\ k \in Nat /\ DOMAIN q = 1..n /\ DOMAIN r = 1..k
        /\ DOMAIN (q \o r) = 1..(n + k)
    BY <1>2, ConcatProperties
  <1>4. \A i \in 1..k : w[n + i] = v[i]
    BY <1>3
  <1>5. \A i \in 1..n : w[i] = u[i]
    BY <1>3
  <1> HIDE DEF n, k
  <1>6. Weighs(u, 1..n) /\ Weighs(v, 1..k) /\ Weighs(w, 1..(n + k))
    BY <1>3 DEF Weighs
  <1>7. Runs(n, k, u, v, w)
    BY <1>3, <1>4, <1>5, <1>6 DEF Runs
  <1> QED
    BY <1>7, TotalOfRuns

LEMMA AppendedAt ==
  ASSUME NEW q, OfSome(q), NEW m
  PROVE  /\ DOMAIN Append(q, m) = DOMAIN q \cup {Len(q) + 1}
         /\ \A i \in DOMAIN q : Append(q, m)[i] = q[i]
         /\ Append(q, m)[Len(q) + 1] = m
         /\ Len(q) + 1 \notin DOMAIN q
         /\ IsFiniteSet(DOMAIN q)
  <1>1. /\ Len(q) \in Nat /\ DOMAIN q = 1..Len(q) /\ DOMAIN Append(q, m) = 1..(Len(q) + 1)
        /\ \A i \in 1..Len(q) : Append(q, m)[i] = q[i]
        /\ Append(q, m)[Len(q) + 1] = m
    BY Appended
  <1>2. IsFiniteSet(DOMAIN q)
    BY <1>1, IntervalsFinite
  <1> QED
    BY <1>1, <1>2

LEMMA TailedAt ==
  ASSUME NEW q, OfSome(q), q # << >>
  PROVE  \A i \in DOMAIN Tail(q) : i + 1 \in DOMAIN q /\ Tail(q)[i] = q[i + 1]
  <1>1. PICK S : q \in Seq(S)
    BY DEF OfSome
  <1>2. /\ Tail(q) \in Seq(S) /\ Len(Tail(q)) = Len(q) - 1
        /\ \A i \in 1..Len(Tail(q)) : Tail(q)[i] = q[i + 1]
    BY <1>1, HeadTailProperties
  <1> QED
    BY <1>1, <1>2

LEMMA JoinedAt ==
  ASSUME NEW q, OfSome(q), NEW r, OfSome(r)
  PROVE  /\ \A i \in DOMAIN q : (q \o r)[i] = q[i]
         /\ \A i \in DOMAIN r : (q \o r)[Len(q) + i] = r[i]
  <1>1. PICK Q, R : q \in Seq(Q) /\ r \in Seq(R)
    BY DEF OfSome
  <1>2. q \in Seq(Q \cup R) /\ r \in Seq(Q \cup R)
    BY <1>1, SeqMonotonic
  <1>3. /\ Len(q) \in Nat /\ DOMAIN q = 1..Len(q) /\ DOMAIN r = 1..Len(r) /\ Len(r) \in Nat
        /\ \A i \in 1..(Len(q) + Len(r)) :
             (q \o r)[i] = IF i <= Len(q) THEN q[i] ELSE r[i - Len(q)]
    BY <1>2, ConcatProperties
  <1> QED
    BY <1>3
-----------------------------------------------------------------------------
(***************************************************************************)
(* What is sent and settled, and the bound of the queue.                   *)
(***************************************************************************)
LEMMA ToldOneByOne ==
  ASSUME NEW s, OfSome(s), NEW a, NEW b
  PROVE  s \o <<a, b>> = Append(Append(s, a), b) /\ s \o <<b>> = Append(s, b)
  <1>1. PICK S : s \in Seq(S)
    BY DEF OfSome
  <1> DEFINE M == S \cup {a, b}
  <1>2. s \in Seq(M) /\ a \in M /\ b \in M
    BY <1>1, SeqMonotonic
  <1> HIDE DEF M
  <1> QED
    BY <1>2

\* A transaction is sent, or settled, or nothing happens to any.
LEMMA SendKeeps ==
  ASSUME OfSome(chain), Len(chain) <= MaxTxs, NEW call, NEW with, Send(call, with)
  PROVE  /\ OfSome(chain') /\ Len(chain') <= MaxTxs
         /\ \A i \in DOMAIN chain' :
              \/ i \in DOMAIN chain /\ chain'[i] = chain[i]
              \/ chain'[i].call = call /\ chain'[i].with = with
  <1> DEFINE tx == [call |-> call, with |-> with]
  <1>1. tx.call = call /\ tx.with = with
    OBVIOUS
  <1>2. chain' = Append(chain, tx) /\ Len(chain) < MaxTxs
    BY DEF Send
  <1> HIDE DEF tx
  <1> QED
    BY <1>1, <1>2, Appended, RowBoundsAreNat

LEMMA SettleKeeps ==
  ASSUME OfSome(chain), Len(chain) <= MaxTxs, NEW i \in DOMAIN chain,
         chain' = [chain EXCEPT ![i] = Settled]
  PROVE  /\ OfSome(chain') /\ Len(chain') <= MaxTxs
         /\ \A j \in DOMAIN chain' :
              \/ j \in DOMAIN chain /\ chain'[j] = chain[j]
              \/ chain'[j].call = "settled"
  <1>1. PICK S : chain \in Seq(S)
    BY DEF OfSome
  <1>2. chain \in Seq(S \cup {Settled})
    BY <1>1, SeqMonotonic
  <1>3. chain' \in Seq(S \cup {Settled}) /\ Len(chain') = Len(chain)
    BY <1>2, ExceptSeq
  <1>4. \A j \in DOMAIN chain' : j \in DOMAIN chain
                                 /\ chain'[j] = IF j = i THEN Settled ELSE chain[j]
    BY <1>2
  <1> QED
    BY <1>3, <1>4 DEF OfSome, Settled

(***************************************************************************)
(* How long the queue is.                                                  *)
(***************************************************************************)
Size == Len(ready) + Len(unacked)

LEMMA SizeIs ==
  ASSUME Queues
  PROVE  Size \in Nat /\ Len(ready) \in Nat /\ Len(unacked) \in Nat
  <1>1. PICK R, S : ready \in Seq(R) /\ unacked \in Seq(S)
    BY DEF Queues, OfSome
  <1> QED
    BY <1>1 DEF Size

LEMMA SizeComes ==
  ASSUME Queues'
  PROVE  Size' \in Nat
  <1>1. PICK R, S : ready' \in Seq(R) /\ unacked' \in Seq(S)
    BY DEF Queues, OfSome
  <1> QED
    BY <1>1 DEF Size

LEMMA SizeTaken ==
  ASSUME Queues, ready # << >>, Ack \/ LeaveUnacked \/ Acknowledge
  PROVE  Queues' /\ Size' <= Size
  <1>1. PICK R, S : ready \in Seq(R) /\ unacked \in Seq(S)
    BY DEF Queues, OfSome
  <1>2. ready \in Seq(R \cup S) /\ unacked \in Seq(R \cup S)
    BY <1>1, SeqMonotonic
  <1>3. /\ Tail(ready) \in Seq(R \cup S) /\ Head(ready) \in R \cup S
        /\ Len(Tail(ready)) = Len(ready) - 1
        /\ Append(unacked, Head(ready)) \in Seq(R \cup S)
        /\ Len(Append(unacked, Head(ready))) = Len(unacked) + 1
        /\ unacked \o ready \in Seq(R \cup S)
        /\ Len(unacked \o ready) = Len(unacked) + Len(ready)
    BY <1>2, HeadTailProperties, AppendProperties, ConcatProperties
  <1>4. << >> \in Seq(R \cup S) /\ Len(<< >>) = 0
    BY EmptySeq
  <1>5. Len(ready) \in Nat /\ Len(unacked) \in Nat
    BY <1>1
  <1>6. CASE Ack
    BY <1>2, <1>3, <1>5, <1>6 DEF Ack, Size, Queues, OfSome
  <1>7. CASE LeaveUnacked
    BY <1>2, <1>3, <1>5, <1>7 DEF LeaveUnacked, Message, Size, Queues, OfSome
  <1>8. CASE DeliveredAgain
    BY <1>2, <1>3, <1>4, <1>5, <1>8 DEF DeliveredAgain, Size, Queues, OfSome
  <1> QED
    BY <1>6, <1>7, <1>8 DEF Acknowledge

LEMMA SizeRestarted ==
  ASSUME Queues, ready' = unacked \o ready, unacked' = << >>
  PROVE  Queues' /\ Size' = Size
  <1>1. PICK R, S : ready \in Seq(R) /\ unacked \in Seq(S)
    BY DEF Queues, OfSome
  <1>2. ready \in Seq(R \cup S) /\ unacked \in Seq(R \cup S)
    BY <1>1, SeqMonotonic
  <1>3. /\ unacked \o ready \in Seq(R \cup S)
        /\ Len(unacked \o ready) = Len(unacked) + Len(ready)
    BY <1>2, ConcatProperties
  <1>4. << >> \in Seq(R \cup S) /\ Len(<< >>) = 0
    BY EmptySeq
  <1>5. Len(ready) \in Nat /\ Len(unacked) \in Nat
    BY <1>1
  <1> QED
    BY <1>3, <1>4, <1>5 DEF Size, Queues, OfSome

LEMMA SizeTold ==
  ASSUME Queues, NEW m, ready' = Append(ready, m), UNCHANGED unacked
  PROVE  Queues' /\ Size' = Size + 1
  <1>1. OfSome(ready') /\ Len(ready') = Len(ready) + 1
    BY Appended DEF Queues
  <1>2. Len(ready) \in Nat /\ Len(unacked) \in Nat
    BY SizeIs
  <1> QED
    BY <1>1, <1>2 DEF Queues, Size

\* The transactions that are over.
Over == {i \in DOMAIN chain : chain[i].call = "settled"}

CallsTold ==
  /\ OfSome(chain) /\ Len(chain) <= MaxTxs
  /\ \A i \in DOMAIN chain : chain[i].call \in Calls \cup {"settled"}

LEMMA OverIs ==
  ASSUME CallsTold
  PROVE  /\ IsFiniteSet(Over) /\ Cardinality(Over) \in Nat
         /\ Cardinality(Over) <= Len(chain) /\ Len(chain) \in Nat
  <1>1. PICK S : chain \in Seq(S)
    BY DEF OfSome, CallsTold
  <1>2. Over \subseteq 1..Len(chain) /\ Len(chain) \in Nat
    BY <1>1 DEF Over
  <1>3. IsFiniteSet(1..Len(chain)) /\ Cardinality(1..Len(chain)) = Len(chain)
    BY <1>2, FS_Interval
  <1> QED
    BY <1>2, <1>3, FS_Subset, FS_CardinalityType

\* k transactions more are over.
Settles(k) == CallsTold' /\ Cardinality(Over') = Cardinality(Over) + k

LEMMA NothingSettles ==
  ASSUME CallsTold, UNCHANGED chain
  PROVE  Settles(0)
  <1>1. CallsTold' /\ Over' = Over
    BY DEF CallsTold, Over
  <1> QED
    BY <1>1, OverIs DEF Settles

LEMMA SendSettles ==
  ASSUME CallsTold, NEW call \in Calls, NEW with, Send(call, with)
  PROVE  Settles(0)
  <1>1. call # "settled"
    BY DEF Calls
  <1> DEFINE tx == [call |-> call, with |-> with]
  <1>2. tx.call = call
    OBVIOUS
  <1>3. chain' = Append(chain, tx) /\ Len(chain) < MaxTxs
    BY DEF Send
  <1> HIDE DEF tx
  <1>4. /\ OfSome(chain') /\ Len(chain') = Len(chain) + 1 /\ Len(chain) \in Nat
        /\ DOMAIN chain' = 1..(Len(chain) + 1) /\ DOMAIN chain = 1..Len(chain)
        /\ \A i \in 1..Len(chain) : chain'[i] = chain[i]
        /\ chain'[Len(chain) + 1] = tx
    BY <1>3, Appended DEF CallsTold
  <1>5. \A i \in DOMAIN chain' : \/ i \in DOMAIN chain /\ chain'[i] = chain[i]
                                 \/ i \notin DOMAIN chain /\ chain'[i] = tx
    BY <1>4
  <1>6. Over' = Over
    BY <1>1, <1>2, <1>4, <1>5 DEF Over
  <1>7. CallsTold'
    BY <1>2, <1>3, <1>4, <1>5, RowBoundsAreNat DEF CallsTold
  <1> QED
    BY <1>6, <1>7, OverIs DEF Settles

LEMMA OneSettles ==
  ASSUME CallsTold, NEW i \in DOMAIN chain, chain[i].call # "settled",
         chain' = [chain EXCEPT ![i] = Settled]
  PROVE  Settles(1)
  <1>1. OfSome(chain') /\ Len(chain') <= MaxTxs
    BY SettleKeeps DEF CallsTold
  <1>2. \A j \in DOMAIN chain' : chain'[j] = IF j = i THEN Settled ELSE chain[j]
    OBVIOUS
  <1>3. DOMAIN chain' = DOMAIN chain
    OBVIOUS
  <1>4. Settled.call = "settled"
    BY DEF Settled
  <1>5. Over' = Over \cup {i} /\ i \notin Over
    BY <1>2, <1>3, <1>4 DEF Over
  <1>6. Cardinality(Over') = Cardinality(Over) + 1
    BY <1>5, OverIs, FS_AddElement
  <1>7. CallsTold'
    BY <1>1, <1>2, <1>3, <1>4 DEF CallsTold
  <1> QED
    BY <1>6, <1>7 DEF Settles

\* A deferred payment that is alive has its trigger yet to come.
Coming == IF kind = "delayedpayment" /\ onChain = "alive" THEN 1 ELSE 0

\* What there was before, the two messages of each transaction that is over,
\* and those of the handlers that died.
Allowed == MaxQueue + 1 + 2 * Cardinality(Over) + troubles

RowTold ==
  /\ Queues /\ CallsTold
  /\ lockedBy \in LockValues
  /\ txHash \in 0..MaxTxs
  /\ onChain \in {"none", "alive", "over"}
  /\ now \in Times
  /\ troubles \in 0..MaxTroubles
  /\ Size + Coming <= Allowed

LEMMA RowIsTyped == RowTold => RowTypeOK
  <1> SUFFICES ASSUME RowTold PROVE RowTypeOK
    OBVIOUS
  <1>1. /\ Cardinality(Over) \in Nat /\ Cardinality(Over) <= MaxTxs
        /\ Len(chain) \in Nat
    BY OverIs, RowBoundsAreNat DEF RowTold, CallsTold
  <1>2. Size <= MaxHeld
    <2> DEFINE c == Cardinality(Over)
    <2>1. /\ c \in Nat /\ c <= MaxTxs /\ Coming \in {0, 1} /\ Size \in Nat
          /\ troubles \in 0..MaxTroubles
          /\ Size + Coming <= MaxQueue + 1 + 2 * c + troubles
      BY <1>1, SizeIs DEF RowTold, Coming, Allowed
    <2> HIDE DEF c
    <2> QED
      BY <2>1, RowBoundsAreNat DEF MaxHeld
  <1> QED
    BY <1>2 DEF RowTold, RowTypeOK, CallsTold, Size

\* What a step may do to the rest of the row.
Spends == UNCHANGED troubles \/ Trouble
Locks  == lockedBy' \in {lockedBy, This, NoOne}
Hashes == txHash' \in {txHash, Len(chain')}
MaySend  == UNCHANGED chain \/ \E call \in Calls : \E with : Send(call, with)

LEMMA SendsSettles ==
  ASSUME CallsTold, MaySend
  PROVE  Settles(0)
  BY NothingSettles, SendSettles DEF MaySend

LEMMA LocksAre ==
  /\ TakeOff \in {lockedBy, This, NoOne}
  /\ TakeOffFor(lockedBy, This) \in {lockedBy, This, NoOne}
  /\ Blocking(lockedBy, This) \in {lockedBy, This, NoOne}
  /\ TakeOffFor(Blocking(lockedBy, This), This) \in {lockedBy, This, NoOne}
  BY DEF TakeOff, TakeOffFor, Blocking

LEMMA RowStepTold ==
  ASSUME RowTold, NEW k \in {0, 1}, Settles(k), Queues', Spends, Locks, Hashes,
         onChain' \in {"none", "alive", "over"}, now' \in Times,
         \/ Size' + Coming' <= Size + Coming + 2 * k
         \/ Size < MaxQueue /\ Size' <= Size + 1
         \/ Trouble /\ Size' + Coming' <= Size + Coming + 1
  PROVE  RowTold'
  <1>1. /\ Cardinality(Over) \in Nat /\ CallsTold'
        /\ Cardinality(Over') = Cardinality(Over) + k
    BY OverIs DEF RowTold, Settles
  <1>2. Len(chain') \in 0..MaxTxs
    <2>1. PICK S : chain' \in Seq(S)
      BY <1>1 DEF CallsTold, OfSome
    <2> QED
      BY <1>1, <2>1, RowBoundsAreNat DEF CallsTold
  <1>3. lockedBy' \in LockValues /\ txHash' \in 0..MaxTxs
    BY <1>2, ThisIsAContract DEF RowTold, Locks, Hashes, LockValues
  <1>4. troubles' \in 0..MaxTroubles
    BY RowBoundsAreNat DEF RowTold, Spends, Trouble
  <1>5. Size' + Coming' <= Allowed'
    <2> DEFINE c == Cardinality(Over)
               d == Cardinality(Over')
               s == Size
               t == Size'
               a == Coming
               b == Coming'
               u == troubles
               v == troubles'
    <2>1. Size \in Nat
      BY SizeIs DEF RowTold
    <2>2. Size' \in Nat
      BY SizeComes
    <2>3. /\ s \in Nat /\ t \in Nat /\ a \in {0, 1} /\ b \in {0, 1}
          /\ c \in Nat /\ d = c + k /\ u \in Nat
          /\ s + a <= MaxQueue + 1 + 2 * c + u
          /\ Allowed' = MaxQueue + 1 + 2 * d + v
      BY <1>1, <2>1, <2>2 DEF Coming, RowTold, Allowed
    <2>4. v = u \/ v = u + 1
      BY DEF Spends, Trouble
    <2>5. Trouble => v = u + 1
      BY DEF Trouble
    <2> HIDE DEF c, d, s, t, a, b, u, v
    <2>6. t + b <= MaxQueue + 1 + 2 * d + v
      <3>1. CASE t + b <= s + a + 2 * k
        BY <2>3, <2>4, <3>1, RowBoundsAreNat
      <3>2. CASE s < MaxQueue /\ t <= s + 1
        BY <2>3, <2>4, <3>2, RowBoundsAreNat
      <3>3. CASE v = u + 1 /\ t + b <= s + a + 1
        BY <2>3, <3>3, RowBoundsAreNat
      <3> QED
        BY <2>5, <3>1, <3>2, <3>3 DEF s, t, a, b
    <2> QED
      BY <2>3, <2>6 DEF t, b
  <1> QED
    BY <1>1, <1>3, <1>4, <1>5 DEF RowTold

\* The shapes of the steps: a message is handled, ...
HandlerTold ==
  /\ ready # << >>
  /\ Ack \/ LeaveUnacked \/ Acknowledge
  /\ Spends /\ Locks /\ Hashes /\ MaySend
  /\ UNCHANGED <<kind, onChain, now>>

\* ... or one is published, ...
PublishTold ==
  /\ \E m : Publish(m)
  /\ onChain' \in {onChain, "over"}
  /\ UNCHANGED <<kind, lockedBy, txHash, chain, now, troubles>>

\* ... or a transaction is mined or fails, and the scanner tells of it, ...
ScannerTold ==
  /\ \E i \in DOMAIN chain :
       chain[i].call # "settled" /\ chain' = [chain EXCEPT ![i] = Settled]
  /\ \/ UNCHANGED ready
     \/ \E m : ready' = Append(ready, m)
     \/ \E a, b : ready' = Append(Append(ready, a), b) /\ UNCHANGED onChain
  /\ onChain' \in {onChain, "alive", "over"}
  /\ Spends
  /\ UNCHANGED <<kind, lockedBy, unacked, txHash, now>>

\* ... or the queue rests.
RestTold ==
  /\ Spends /\ Locks /\ MaySend
  /\ now' \in Times
  /\ UNCHANGED <<kind, queue, txHash, onChain>>

LEMMA AtMost ==
  ASSUME NEW s \in Nat, NEW t \in Nat, NEW a \in {0, 1}, NEW b \in {0, 1}
  PROVE  /\ t <= s + 1 => t + b <= s + a + 2 * 1
         /\ t <= s /\ b = a => t + b <= s + a + 2 * 0
         /\ t <= s + 2 /\ b = a => t + b <= s + a + 2 * 1
  OBVIOUS

LEMMA ComingStays ==
  ASSUME UNCHANGED <<kind, onChain>>
  PROVE  Coming' = Coming
  BY DEF Coming

LEMMA HandlerKeepsRow ==
  ASSUME RowTold, HandlerTold
  PROVE  RowTold'
  <1>1. Queues' /\ Size' <= Size /\ Size \in Nat
    BY SizeTaken, SizeIs DEF HandlerTold, RowTold
  <1>2. Coming' = Coming
    BY ComingStays DEF HandlerTold
  <1>3. Settles(0)
    BY SendsSettles DEF HandlerTold, RowTold
  <1>4. onChain' \in {"none", "alive", "over"} /\ now' \in Times
    BY DEF HandlerTold, RowTold
  <1>5. Size' + Coming' <= Size + Coming + 2 * 0
    <2>1. Coming \in {0, 1} /\ Coming' \in {0, 1}
      BY DEF Coming
    <2>2. Size' \in Nat
      BY <1>1, SizeComes
    <2> QED
      BY <1>1, <1>2, <2>1, <2>2, AtMost
  <1> QED
    BY <1>1, <1>3, <1>4, <1>5, RowStepTold DEF HandlerTold

LEMMA PublishKeepsRow ==
  ASSUME RowTold, PublishTold
  PROVE  RowTold'
  <1>1. PICK m : Publish(m)
    BY DEF PublishTold
  <1>2. Queues' /\ Size' = Size + 1 /\ Size \in Nat /\ Size < MaxQueue
    BY <1>1, SizeTold, SizeIs DEF Publish, RowTold, Size
  <1>3. Settles(0)
    BY NothingSettles DEF PublishTold, RowTold
  <1>4. onChain' \in {"none", "alive", "over"} /\ now' \in Times
    BY DEF PublishTold, RowTold
  <1>5. Spends /\ Locks /\ Hashes
    BY DEF PublishTold, Spends, Locks, Hashes
  <1>6. Size < MaxQueue /\ Size' <= Size + 1
    BY <1>2
  <1> QED
    BY <1>2, <1>3, <1>4, <1>5, <1>6, RowStepTold

LEMMA ScannerKeepsRow ==
  ASSUME RowTold, ScannerTold
  PROVE  RowTold'
  <1>1. Settles(1)
    BY OneSettles DEF ScannerTold, RowTold
  <1>2. onChain' \in {"none", "alive", "over"} /\ now' \in Times
    BY DEF ScannerTold, RowTold
  <1>3. Spends /\ Locks /\ Hashes
    BY DEF ScannerTold, Locks, Hashes
  <1>4. Coming \in {0, 1} /\ Coming' \in {0, 1} /\ Size \in Nat
    BY SizeIs DEF Coming, RowTold
  <1>5. CASE UNCHANGED ready
    <2>1. Queues' /\ Size' = Size
      BY <1>5 DEF ScannerTold, RowTold, Queues, Size
    <2>2. Size' \in Nat /\ Size' <= Size + 1
      BY <1>4, <2>1
    <2>3. Size' + Coming' <= Size + Coming + 2 * 1
      BY <1>4, <2>2, AtMost
    <2> QED
      BY <1>1, <1>2, <1>3, <2>1, <2>3, RowStepTold
  <1>6. ASSUME NEW m, ready' = Append(ready, m)
        PROVE  RowTold'
    <2>1. Queues' /\ Size' = Size + 1
      BY <1>6, SizeTold DEF ScannerTold, RowTold
    <2>2. Size' \in Nat /\ Size' <= Size + 1
      BY <1>4, <2>1
    <2>3. Size' + Coming' <= Size + Coming + 2 * 1
      BY <1>4, <2>2, AtMost
    <2> QED
      BY <1>1, <1>2, <1>3, <2>1, <2>3, RowStepTold
  <1>7. ASSUME NEW a, NEW b, ready' = Append(Append(ready, a), b), UNCHANGED onChain
        PROVE  RowTold'
    <2> DEFINE some == Append(ready, a)
    <2>1. OfSome(some) /\ Len(some) = Len(ready) + 1
      BY Appended DEF RowTold, Queues
    <2>2. ready' = Append(some, b)
      BY <1>7
    <2> HIDE DEF some
    <2>3. OfSome(ready') /\ Len(ready') = Len(some) + 1
      BY <2>1, <2>2, Appended
    <2>4. Len(ready) \in Nat /\ Len(unacked) \in Nat
      BY SizeIs DEF RowTold
    <2>5. Queues' /\ Size' = Size + 2
      BY <2>1, <2>3, <2>4 DEF ScannerTold, RowTold, Queues, Size
    <2>6. Coming' = Coming
      BY <1>7, ComingStays DEF ScannerTold
    <2>7. Size' + Coming' <= Size + Coming + 2 * 1
      BY <1>4, <2>5, <2>6
    <2> QED
      BY <1>1, <1>2, <1>3, <2>5, <2>7, RowStepTold
  <1> QED
    BY <1>5, <1>6, <1>7 DEF ScannerTold

LEMMA RestKeepsRow ==
  ASSUME RowTold, RestTold
  PROVE  RowTold'
  <1>1. Queues' /\ Size' = Size /\ Size \in Nat
    BY SizeIs DEF RestTold, RowTold, queue, Queues, Size
  <1>2. Coming' = Coming /\ Coming \in {0, 1}
    BY ComingStays DEF RestTold, Coming
  <1>3. Settles(0)
    BY SendsSettles DEF RestTold, RowTold
  <1>4. onChain' \in {"none", "alive", "over"} /\ now' \in Times /\ Hashes
    BY DEF RestTold, RowTold, Hashes
  <1>5. Size' + Coming' <= Size + Coming + 2 * 0
    BY <1>1, <1>2
  <1> QED
    BY <1>1, <1>3, <1>4, <1>5, RowStepTold DEF RestTold

LEMMA RestartKeepsRow ==
  ASSUME RowTold, Restart
  PROVE  RowTold'
  <1>1. Queues' /\ Size' = Size /\ Size \in Nat
    BY SizeRestarted, SizeIs DEF Restart, RowTold
  <1>2. Coming' = Coming /\ Coming \in {0, 1}
    BY ComingStays DEF Restart, network, Coming
  <1>3. Settles(0)
    BY NothingSettles DEF Restart, network, RowTold
  <1>4. /\ onChain' \in {"none", "alive", "over"} /\ now' \in Times
        /\ Hashes /\ Spends /\ Locks
    BY DEF Restart, network, RowTold, Hashes, Spends, Locks
  <1>5. Size' + Coming' <= Size + Coming + 2 * 0
    BY <1>1, <1>2
  <1> QED
    BY <1>1, <1>3, <1>4, <1>5, RowStepTold

LEMMA DeployIsCall == "deploy" \in Calls
  BY DEF Calls

LEMMA RowReceivesTold ==
  ASSUME RowReceives
  PROVE  HandlerTold
  <1> USE LocksAre DEF Spends, Locks, Hashes, MaySend, Receiving, network, HandlerTold
  <1>1. CASE LaunchPostponed
    BY <1>1 DEF LaunchPostponed
  <1>2. CASE LaunchIgnored
    BY <1>2 DEF LaunchIgnored
  <1>3. CASE LaunchSends
    BY <1>3, DeployIsCall DEF LaunchSends, Acknowledge, DeliveredAgain, Send
  <1>4. CASE LaunchRaises
    BY <1>4 DEF LaunchRaises, LeaveUnacked, Postpone
  <1>5. CASE DeployedIgnored \/ DeployedPostponed
    BY <1>5 DEF DeployedIgnored, DeployedPostponed
  <1>6. CASE DeployedRejected
    BY <1>6 DEF DeployedRejected, Postpone
  <1>7. CASE TransactionFailed \/ TransactionUnknown
    BY <1>7 DEF TransactionFailed, TransactionUnknown, Postpone
  <1> QED
    BY <1>1, <1>2, <1>3, <1>4, <1>5, <1>6, <1>7 DEF RowReceives

\* What is mined: the transaction was out.
LEMMA MinedTold ==
  ASSUME NEW i \in DOMAIN chain, chain[i].call # "settled",
         NEW m, NEW after \in {onChain, "alive", "over"}, Mined(i, m, after)
  PROVE  ScannerTold
  BY DEF Mined, ScannerTold, Spends

LEMMA RevertsTold ==
  ASSUME RowTold, NEW i, Reverted(i)
  PROVE  ScannerTold
  <1> DEFINE a == Deployed(FALSE)
             b == TxFailed(i)
  <1>1. /\ i \in DOMAIN chain /\ chain[i].call # "settled"
        /\ chain' = [chain EXCEPT ![i] = Settled]
        /\ ready' = ready \o <<a, b>> \/ ready' = ready \o <<b>>
        /\ UNCHANGED <<kind, lockedBy, unacked, txHash, onChain, now>>
        /\ Spends
    BY DEF Reverted, Reverts, Spends
  <1> HIDE DEF a, b
  <1>2. ready' = Append(Append(ready, a), b) \/ ready' = Append(ready, b)
    BY <1>1, ToldOneByOne DEF RowTold, Queues
  <1> QED
    BY <1>1, <1>2 DEF ScannerTold

LEMMA RowNextKeepsRow ==
  ASSUME RowTold, RowNext
  PROVE  RowTold'
  <1>1. CASE RowReceives
    BY <1>1, RowReceivesTold, HandlerKeepsRow
  <1>2. CASE Restart
    BY <1>2, RestartKeepsRow
  <1>3. ASSUME NEW i \in 1..MaxTxs, DeployMined(i)
        PROVE  ScannerTold
    <2> DEFINE m == Deployed(TRUE)
    <2>1. i \in DOMAIN chain /\ chain[i].call # "settled" /\ Mined(i, m, "alive")
      BY <1>3 DEF DeployMined, Pending
    <2> HIDE DEF m
    <2> QED
      BY <2>1, MinedTold
  <1> QED
    BY <1>1, <1>2, <1>3, RevertsTold, ScannerKeepsRow DEF RowNext

LEMMA RowStartsTold ==
  ASSUME RowInit, onChain \in {"none", "alive"}, ready = << >> \/ ready = <<Launch>>,
         kind = "delayedpayment" => onChain = "none"
  PROVE  RowTold
  <1> DEFINE none == << >>
             one  == <<Launch>>
  <1>1. OfSome(none) /\ OfSome(one) /\ Len(none) = 0 /\ Len(one) = 1
    BY Empty, OneOrTwo
  <1>2. ready \in {none, one} /\ unacked = none /\ chain = none /\ DOMAIN chain = {}
    BY DEF RowInit
  <1>3. CallsTold
    BY <1>1, <1>2, RowBoundsAreNat DEF CallsTold
  <1>4. Cardinality(Over) \in Nat /\ Cardinality(Over) <= 0
    BY <1>1, <1>2, <1>3, OverIs
  <1> HIDE DEF none, one
  <1>5. Queues /\ Size \in {0, 1}
    BY <1>1, <1>2 DEF Queues, Size
  <1>6. Coming = 0
    BY DEF Coming
  <1>7. lockedBy \in LockValues /\ txHash \in 0..MaxTxs /\ now \in Times /\ troubles = 0
    BY RowBoundsAreNat DEF RowInit, LockValues, NoTx, Times
  <1> QED
    BY <1>3, <1>4, <1>5, <1>6, <1>7, RowBoundsAreNat DEF RowTold, Allowed
=============================================================================
