----------------------- MODULE ParameterAccess_proofs -----------------------
(***************************************************************************)
(* Proofs about ParameterAccess, for every set of parameters and objects   *)
(* and every bound, and, with the same facts about lists, about            *)
(* ManageableDevice, for all devices, hosts and bounds.                    *)
(***************************************************************************)
EXTENDS ParameterAccess, ManageableDevice, FiniteSetTheorems, NaturalsInduction,
        WellFoundedInduction, TLAPS

-----------------------------------------------------------------------------
(***************************************************************************)
(* Lists.                                                                  *)
(***************************************************************************)

LEMMA RangeAppend ==
    ASSUME NEW S, NEW s \in Seq(S), NEW x \in S
    PROVE  /\ Append(s, x) \in Seq(S)
           /\ Append(s, x) # <<>>
           /\ Range(Append(s, x)) = Range(s) \cup {x}
<1>1. /\ Append(s, x) \in Seq(S) /\ Len(Append(s, x)) = Len(s) + 1
      /\ \A i \in 1 .. Len(s) : Append(s, x)[i] = s[i]
      /\ Append(s, x)[Len(s) + 1] = x /\ Len(s) \in Nat
      /\ DOMAIN s = 1 .. Len(s) /\ DOMAIN Append(s, x) = 1 .. Len(s) + 1
  OBVIOUS
<1>2. Append(s, x) # <<>>
  BY <1>1
<1>3. \A y : y \in Range(Append(s, x)) => y \in Range(s) \cup {x}
  <2>1. SUFFICES ASSUME NEW i \in 1 .. Len(s) + 1
                 PROVE  Append(s, x)[i] \in Range(s) \cup {x}
    BY <1>1 DEF Range
  <2>2. i \in 1 .. Len(s) \/ i = Len(s) + 1
    BY <1>1
  <2> QED BY <2>2, <1>1 DEF Range
<1>4. \A y : y \in Range(s) \cup {x} => y \in Range(Append(s, x))
  <2>1. \A i \in 1 .. Len(s) : i \in 1 .. Len(s) + 1
    BY <1>1
  <2>2. Len(s) + 1 \in 1 .. Len(s) + 1
    BY <1>1
  <2> QED BY <2>1, <2>2, <1>1 DEF Range
<1> QED BY <1>1, <1>2, <1>3, <1>4

LEMMA RangeTail ==
    ASSUME NEW S, NEW s \in Seq(S), s # <<>>
    PROVE  /\ Head(s) \in S /\ Head(s) \in Range(s)
           /\ Tail(s) \in Seq(S)
           /\ Range(Tail(s)) \subseteq Range(s)
           /\ \A x \in Range(s) : x # Head(s) => x \in Range(Tail(s))
           /\ Len(s) = 1 => Range(s) = {Head(s)}
           /\ Len(s) # 1 => Tail(s) # <<>>
<1>1. /\ Len(s) \in Nat /\ Len(s) > 0 /\ Head(s) = s[1]
      /\ Tail(s) \in Seq(S) /\ Len(Tail(s)) = Len(s) - 1
      /\ \A i \in 1 .. Len(s) - 1 : Tail(s)[i] = s[i + 1]
      /\ DOMAIN s = 1 .. Len(s) /\ DOMAIN Tail(s) = 1 .. Len(s) - 1
  OBVIOUS
<1>2. Head(s) \in S /\ Head(s) \in Range(s)
  BY <1>1 DEF Range
<1>3. Range(Tail(s)) \subseteq Range(s)
  <2>1. \A i \in 1 .. Len(s) - 1 : i + 1 \in 1 .. Len(s)
    BY <1>1
  <2> QED BY <2>1, <1>1 DEF Range
<1>4. ASSUME NEW i \in 1 .. Len(s), i # 1
      PROVE  s[i] \in Range(Tail(s))
  <2>1. i - 1 \in 1 .. Len(s) - 1 /\ (i - 1) + 1 = i
    BY <1>1, <1>4
  <2> QED BY <2>1, <1>1 DEF Range
<1>5. \A x \in Range(s) : x # Head(s) => x \in Range(Tail(s))
  BY <1>1, <1>4 DEF Range
<1>6. Len(s) = 1 => Range(s) = {Head(s)}
  BY <1>1 DEF Range
<1>7. Len(s) # 1 => Tail(s) # <<>>
  <2>1. SUFFICES ASSUME Tail(s) = <<>> PROVE Len(s) = 1
    OBVIOUS
  <2>2. Len(Tail(s)) = 0
    <3>1. Len(<<>>) = 0
      OBVIOUS
    <3> QED BY <2>1, <3>1, Zenon
  <2>3. PICK n \in Nat : n = Len(s) /\ Len(Tail(s)) = n - 1
    BY <1>1
  <2> QED BY <2>2, <2>3
<1> QED BY <1>1, <1>2, <1>3, <1>5, <1>6, <1>7

LEMMA FirstIndex ==
    ASSUME NEW S, NEW s \in Seq(S), NEW p \in Range(s)
    PROVE  \E i \in DOMAIN s : s[i] = p /\ \A j \in 1 .. i - 1 : s[j] # p
<1> DEFINE I == {i \in Nat : i \in DOMAIN s /\ s[i] = p}
<1>1. I \subseteq Nat /\ I # {}
  BY DEF Range
<1>2. PICK i \in I : \A j \in I : ~ (<<j, i>> \in OpToRel(<, Nat))
  <2> HIDE DEF I
  <2> QED BY <1>1, WFMin, NatLessThanWellFounded, Zenon
<1>3. \A j \in I : ~ (j < i)
  BY <1>2, <1>1 DEF OpToRel
<1>4. \A j \in 1 .. i - 1 : s[j] # p
  <2>1. SUFFICES ASSUME NEW j \in 1 .. i - 1, s[j] = p PROVE FALSE
    OBVIOUS
  <2>2. i \in 1 .. Len(s)
    <3>1. i \in DOMAIN s
      BY <1>2
    <3> QED BY <3>1
  <2>3. j \in I /\ j < i
    BY <2>1, <2>2
  <2> QED BY <2>3, <1>3
<1> QED BY <1>2, <1>4

\* A value is in a list once at most.
Once(s, x) == \A i, j \in DOMAIN s : s[i] = x /\ s[j] = x => i = j

\* A list without one of its entries, which was its only one of a value if the
\* list has no value twice, or not that one.
LEMMA RemoveOne ==
    ASSUME NEW S, NEW s \in Seq(S), NEW c \in 1 .. Len(s)
    PROVE  \E r \in Seq(S) :
              /\ r = SubSeq(s, 1, c - 1) \o SubSeq(s, c + 1, Len(s))
              /\ Range(r) \subseteq Range(s)
              /\ \A q \in Range(s) : q # s[c] => q \in Range(r)
              /\ (\A i, j \in DOMAIN s : s[i] = s[j] => i = j) =>
                   /\ s[c] \notin Range(r)
                   /\ \A i, j \in DOMAIN r : r[i] = r[j] => i = j
              /\ \A q : Once(s, q) => Once(r, q) /\ (s[c] = q => q \notin Range(r))
<1> DEFINE a == SubSeq(s, 1, c - 1)
           b == SubSeq(s, c + 1, Len(s))
<1>5. /\ a \in Seq(S) /\ Len(a) = c - 1 /\ \A i \in 1 .. c - 1 : a[i] = s[i]
      /\ b \in Seq(S) /\ Len(b) = Len(s) - c
      /\ \A i \in 1 .. Len(s) - c : b[i] = s[c + i]
  OBVIOUS
<1>6. PICK r \in Seq(S) : r = a \o b
  <2>1. \A x, y \in Seq(S) : x \o y \in Seq(S)
    OBVIOUS
  <2> HIDE DEF a, b
  <2>2. a \o b \in Seq(S)
    BY <1>5, <2>1, Zenon
  <2> QED BY <2>2, Zenon
<1>7. /\ Len(r) = Len(s) - 1 /\ DOMAIN r = 1 .. Len(s) - 1
      /\ \A i \in 1 .. c - 1 : r[i] = s[i]
      /\ \A i \in c .. Len(s) - 1 : r[i] = s[i + 1]
  <2> HIDE DEF a, b
  <2>1. Len(r) = Len(s) - 1 /\ \A i \in 1 .. Len(r) : r[i] = IF i <= c - 1 THEN a[i] ELSE b[i - (c - 1)]
    <3>1. \A x, y \in Seq(S) :
            /\ Len(x \o y) = Len(x) + Len(y)
            /\ \A i \in 1 .. Len(x) + Len(y) :
                 (x \o y)[i] = IF i <= Len(x) THEN x[i] ELSE y[i - Len(x)]
      OBVIOUS
    <3>2. Len(r) = Len(a) + Len(b)
          /\ \A i \in 1 .. Len(a) + Len(b) : r[i] = IF i <= Len(a) THEN a[i] ELSE b[i - Len(a)]
      BY <3>1, <1>5, <1>6, Zenon
    <3>3. Len(a) + Len(b) = Len(s) - 1
      BY <1>5
    <3> QED BY <3>2, <3>3, <1>5
  <2>2. ASSUME NEW i \in 1 .. c - 1 PROVE r[i] = s[i]
    <3>1. i \in 1 .. Len(r) /\ i <= c - 1
      BY <2>1
    <3>2. r[i] = a[i]
      BY <2>1, <3>1
    <3> QED BY <3>2, <1>5
  <2>3. ASSUME NEW i \in c .. Len(s) - 1 PROVE r[i] = s[i + 1]
    <3>1. i \in 1 .. Len(r) /\ ~ (i <= c - 1) /\ i - (c - 1) \in 1 .. Len(s) - c
          /\ c + (i - (c - 1)) = i + 1
      BY <2>1
    <3>2. r[i] = b[i - (c - 1)]
      BY <2>1, <3>1
    <3>3. b[i - (c - 1)] = s[c + (i - (c - 1))]
      BY <1>5, <3>1
    <3> QED BY <3>1, <3>2, <3>3
  <2>4. DOMAIN r = 1 .. Len(s) - 1
    BY <2>1, <1>6
  <2> QED BY <2>1, <2>2, <2>3, <2>4
<1> HIDE DEF a, b
\* Each place of r is a place of s other than c.
<1> DEFINE At(i) == IF i < c THEN i ELSE i + 1
<1>8. \A i \in DOMAIN r : At(i) \in DOMAIN s /\ At(i) # c /\ r[i] = s[At(i)]
  <2>1. SUFFICES ASSUME NEW i \in 1 .. Len(s) - 1
                 PROVE  At(i) \in 1 .. Len(s) /\ At(i) # c /\ r[i] = s[At(i)]
    BY <1>7
  <2>2. CASE i \in 1 .. c - 1
    BY <2>2, <1>7
  <2>3. CASE i \in c .. Len(s) - 1
    BY <2>3, <1>7
  <2> QED BY <2>2, <2>3
<1>9. ASSUME NEW i \in 1 .. Len(s), i # c PROVE s[i] \in Range(r)
  <2>1. CASE i < c
    <3>1. i \in DOMAIN r /\ r[i] = s[i]
      BY <2>1, <1>7
    <3> QED BY <3>1 DEF Range
  <2>2. CASE i > c
    <3>1. i - 1 \in DOMAIN r /\ i - 1 \in c .. Len(s) - 1 /\ (i - 1) + 1 = i
      BY <2>2, <1>7
    <3>2. r[i - 1] = s[i]
      BY <3>1, <1>7
    <3> QED BY <3>1, <3>2 DEF Range
  <2> QED BY <2>1, <2>2, <1>9
<1>10. \A i, j \in DOMAIN r : At(i) = At(j) => i = j
  BY <1>7
<1>11. c \in DOMAIN s
  OBVIOUS
<1>12. Range(r) \subseteq Range(s) /\ \A q \in Range(s) : q # s[c] => q \in Range(r)
  <2> HIDE DEF At
  <2>1. Range(r) \subseteq Range(s)
    BY <1>8 DEF Range
  <2>2. ASSUME NEW q \in Range(s), q # s[c] PROVE q \in Range(r)
    <3>1. PICK i \in 1 .. Len(s) : q = s[i]
      BY DEF Range
    <3> QED BY <3>1, <2>2, <1>9
  <2> QED BY <2>1, <2>2
<1>13. ASSUME \A i, j \in DOMAIN s : s[i] = s[j] => i = j
       PROVE  s[c] \notin Range(r) /\ \A i, j \in DOMAIN r : r[i] = r[j] => i = j
  <2> HIDE DEF At
  <2>1. s[c] \notin Range(r)
    BY <1>13, <1>8, <1>11 DEF Range
  <2> QED BY <2>1, <1>13, <1>8, <1>10
<1>14. r = SubSeq(s, 1, c - 1) \o SubSeq(s, c + 1, Len(s))
  BY <1>6, Zenon DEF a, b
<1>15. ASSUME NEW q, Once(s, q)
       PROVE  Once(r, q) /\ (s[c] = q => q \notin Range(r))
  <2> HIDE DEF At
  <2>1. s[c] = q => q \notin Range(r)
    BY <1>15, <1>8, <1>11 DEF Range, Once
  <2> QED BY <2>1, <1>15, <1>8, <1>10 DEF Once
<1> QED BY <1>14, <1>12, <1>13, <1>15, Zenon

\* Adding an entry leaves every other value as often as it was.
LEMMA OnceAppend ==
    ASSUME NEW S, NEW s \in Seq(S), NEW x \in S, NEW q \in S,
           IF q = x THEN q \notin Range(s) ELSE Once(s, q)
    PROVE  Once(Append(s, x), q)
<1>1. /\ \A i \in 1 .. Len(s) : Append(s, x)[i] = s[i]
      /\ Append(s, x)[Len(s) + 1] = x /\ Len(s) \in Nat
      /\ DOMAIN s = 1 .. Len(s) /\ DOMAIN Append(s, x) = 1 .. Len(s) + 1
  OBVIOUS
<1>2. \A i \in 1 .. Len(s) + 1 : i \in 1 .. Len(s) \/ i = Len(s) + 1
  BY <1>1
<1>3. CASE q = x
  <2>1. \A i \in 1 .. Len(s) : s[i] # q
    BY <1>1, <1>3 DEF Range
  <2> QED BY <1>1, <1>2, <2>1 DEF Once
<1>4. CASE q # x
  BY <1>1, <1>2, <1>4 DEF Once
<1> QED BY <1>3, <1>4

\* Taking the first entry of a value out of a list leaves every other value in
\* it, and as often as it was.
LEMMA WithoutFacts ==
    ASSUME NEW S, NEW s \in Seq(S), NEW p \in Range(s)
    PROVE  /\ Without(s, p) \in Seq(S)
           /\ Range(Without(s, p)) \subseteq Range(s)
           /\ \A q \in Range(s) : q # p => q \in Range(Without(s, p))
           /\ \A q : Once(s, q) => Once(Without(s, p), q)
           /\ Once(s, p) => p \notin Range(Without(s, p))
<1> DEFINE P(i) == s[i] = p /\ \A j \in 1 .. i - 1 : s[j] # p
           k == CHOOSE i \in DOMAIN s : P(i)
<1>1. k \in 1 .. Len(s) /\ s[k] = p
  BY FirstIndex
<1>2. PICK c \in 1 .. Len(s) : c = k
  BY <1>1
<1>3. Without(s, p) = SubSeq(s, 1, c - 1) \o SubSeq(s, c + 1, Len(s))
  BY <1>2 DEF Without
<1>4. s[c] = p
  BY <1>1, <1>2
<1> HIDE DEF k
<1>5. PICK r \in Seq(S) :
        /\ r = SubSeq(s, 1, c - 1) \o SubSeq(s, c + 1, Len(s))
        /\ Range(r) \subseteq Range(s)
        /\ \A q \in Range(s) : q # s[c] => q \in Range(r)
        /\ \A q : Once(s, q) => Once(r, q) /\ (s[c] = q => q \notin Range(r))
  BY RemoveOne, Zenon
<1> QED BY <1>3, <1>4, <1>5, Zenon

-----------------------------------------------------------------------------
(***************************************************************************)
(* Types.                                                                  *)
(***************************************************************************)

LEMMA ObjectOfParameter == \A p \in Parameters : Object[p] \in Objects
BY DEF Objects

LEMMA FailsFacts ==
    ASSUME NEW call, faults \in 0 .. MaxFaults, Fails(call)
    PROVE  /\ faults' \in 0 .. MaxFaults
           /\ faults' = 0 => faults = 0 /\ call = "none"
BY ParameterAssumption DEF Fails

LEMMA InfosType ==
    ASSUME NEW o \in Objects, acsSubsList \in [Objects -> Seq(Parameters) \cup {NULL}]
    PROVE  Infos(o) \in Seq(Parameters)
BY DEF Infos

\* What a subscription does to the list.
LEMMA AddSubscriptionFacts ==
    ASSUME TypeOK, NEW p \in Parameters, Common_AddSubscription(p)
    PROVE  /\ bus' = bus \cup {Object[p]} /\ bus' \subseteq Objects
           /\ acsSubsList' \in [Objects -> Seq(Parameters) \cup {NULL}]
           /\ acsSubsList'[Object[p]] # NULL
           /\ \A o \in Objects : o # Object[p] => acsSubsList'[o] = acsSubsList[o]
           /\ \A q \in Parameters : Subscribed(q)' <=> Subscribed(q) \/ q = p
           /\ \A q \in Parameters :
                (IF q = p THEN ~ Subscribed(p) ELSE ListedOnce(q)) => ListedOnce(q)'
<1> DEFINE o == Object[p]
           s == Append(Infos(o), p)
<1>1. o \in Objects
  BY ObjectOfParameter
<1>2. acsSubsList \in [Objects -> Seq(Parameters) \cup {NULL}] /\ bus \subseteq Objects
  BY DEF TypeOK
<1>3. Infos(o) \in Seq(Parameters)
  BY <1>1, <1>2, InfosType
<1>4. s \in Seq(Parameters) /\ Range(s) = Range(Infos(o)) \cup {p}
  BY <1>3, RangeAppend
<1>5. s # NULL
  BY <1>4, ParameterAssumption
<1>6. acsSubsList' = [acsSubsList EXCEPT ![o] = s] /\ bus' = bus \cup {o}
  BY DEF Common_AddSubscription
<1>once. ASSUME NEW q \in Parameters, Object[q] = o,
               IF q = p THEN ~ Subscribed(p) ELSE ListedOnce(q)
         PROVE  Once(s, q)
  <2>1. PICK t \in Seq(Parameters) : t = Infos(o)
    BY <1>3
  <2>2. IF q = p THEN q \notin Range(t) ELSE Once(t, q)
    BY <2>1, <1>once DEF Subscribed, ListedOnce, Once
  <2>3. Once(Append(t, p), q)
    BY <2>2, OnceAppend, Zenon
  <2> QED BY <2>1, <2>3, Zenon
<1> HIDE DEF s
<1>7. ASSUME NEW q \in Parameters
      PROVE  Subscribed(q)' <=> Subscribed(q) \/ q = p
  <2>1. Object[q] \in Objects
    BY ObjectOfParameter
  <2>2. CASE Object[q] = o
    <3>1. Infos(Object[q])' = s
      BY <2>2, <1>1, <1>2, <1>5, <1>6 DEF Infos
    <3> QED BY <3>1, <2>2, <1>4 DEF Subscribed
  <2>3. CASE Object[q] # o
    <3>1. Infos(Object[q])' = Infos(Object[q]) /\ q # p
      BY <2>1, <2>3, <1>2, <1>6 DEF Infos
    <3> QED BY <3>1 DEF Subscribed
  <2> QED BY <2>2, <2>3
<1>8. /\ acsSubsList' \in [Objects -> Seq(Parameters) \cup {NULL}]
      /\ acsSubsList'[o] # NULL
      /\ \A x \in Objects : x # o => acsSubsList'[x] = acsSubsList[x]
  BY <1>1, <1>2, <1>4, <1>5, <1>6
<1>9. ASSUME NEW q \in Parameters, IF q = p THEN ~ Subscribed(p) ELSE ListedOnce(q)
      PROVE  ListedOnce(q)'
  <2>1. Object[q] \in Objects
    BY ObjectOfParameter
  <2>2. CASE Object[q] = o
    <3>1. Infos(Object[q])' = s
      BY <2>2, <1>1, <1>2, <1>5, <1>6 DEF Infos
    <3>2. Once(s, q)
      BY <2>2, <1>9, <1>once
    <3> QED BY <3>1, <3>2, Zenon DEF ListedOnce, Once
  <2>3. CASE Object[q] # o
    <3>1. Infos(Object[q])' = Infos(Object[q]) /\ q # p
      BY <2>1, <2>3, <1>2, <1>6 DEF Infos
    <3> QED BY <3>1, <1>9, Zenon DEF ListedOnce
  <2> QED BY <2>2, <2>3
<1> QED BY <1>1, <1>2, <1>6, <1>7, <1>8, <1>9

\* What the end of a subscription does to the list.
LEMMA DeleteSubscriptionFacts ==
    ASSUME TypeOK, NEW p \in Parameters, Subscribed(p), NEW call,
           Common_DeleteSubscription(p, call)
    PROVE  /\ acsSubsList' \in [Objects -> Seq(Parameters) \cup {NULL}]
           /\ \A o \in Objects : o # Object[p] => acsSubsList'[o] = acsSubsList[o]
           /\ \A q \in Parameters : Subscribed(q)' => Subscribed(q)
           /\ \A q \in Parameters : Subscribed(q) /\ q # p => Subscribed(q)'
           /\ \A q \in Parameters : ListedOnce(q) => ListedOnce(q)'
           /\ ListedOnce(p) => ~ Subscribed(p)'
           /\ acsSubsList[Object[p]] # NULL
           /\ \/ acsSubsList'[Object[p]] # NULL /\ bus' = bus /\ queue' = queue
              \/ /\ acsSubsList'[Object[p]] = NULL
                 /\ bus' = bus \ {Object[p]}
                 /\ queue' = [queue EXCEPT ![Object[p]] = <<>>]
                 /\ \A q \in Parameters : Object[q] = Object[p] => ~ Subscribed(q)'
<1> DEFINE o == Object[p]
           rest == Without(acsSubsList[o], p)
<1>1. o \in Objects
  BY ObjectOfParameter
<1>2. acsSubsList \in [Objects -> Seq(Parameters) \cup {NULL}] /\ bus \subseteq Objects
  BY DEF TypeOK
<1>3. acsSubsList[o] # NULL /\ p \in Range(acsSubsList[o]) /\ Infos(o) = acsSubsList[o]
  BY DEF Subscribed, Infos, Range
<1>4. acsSubsList[o] \in Seq(Parameters)
  BY <1>1, <1>2, <1>3
<1>5. /\ rest \in Seq(Parameters) /\ Range(rest) \subseteq Range(acsSubsList[o])
      /\ \A q \in Range(acsSubsList[o]) : q # p => q \in Range(rest)
  BY <1>3, <1>4, WithoutFacts
<1>once. ASSUME NEW q \in Parameters, Object[q] = o, ListedOnce(q)
         PROVE  Once(rest, q) /\ (p = q => q \notin Range(rest))
  <2>1. Once(acsSubsList[o], q)
    BY <1>3, <1>once, Zenon DEF ListedOnce, Once
  <2> QED BY <2>1, <1>3, <1>4, WithoutFacts
<1>6. rest # NULL
  BY <1>5, ParameterAssumption
<1>7. \/ acsSubsList' = [acsSubsList EXCEPT ![o] = rest] /\ bus' = bus /\ queue' = queue
      \/ /\ acsSubsList' = [acsSubsList EXCEPT ![o] = NULL] /\ rest = <<>>
         /\ bus' = bus \ {o} /\ queue' = [queue EXCEPT ![o] = <<>>]
  BY DEF Common_DeleteSubscription
<1> HIDE DEF rest
<1>8. /\ acsSubsList' \in [Objects -> Seq(Parameters) \cup {NULL}]
      /\ \A x \in Objects : x # o => acsSubsList'[x] = acsSubsList[x]
      /\ \/ acsSubsList'[o] = rest /\ bus' = bus /\ queue' = queue
         \/ /\ acsSubsList'[o] = NULL /\ rest = <<>>
            /\ bus' = bus \ {o} /\ queue' = [queue EXCEPT ![o] = <<>>]
  BY <1>1, <1>2, <1>5, <1>7
<1>9. Range(<<>>) = {}
  BY DEF Range
<1>10. Range(Infos(o)') = Range(rest)
  BY <1>6, <1>8, <1>9 DEF Infos
<1>11. ASSUME NEW q \in Parameters
       PROVE  /\ Subscribed(q)' => Subscribed(q)
              /\ Subscribed(q) /\ q # p => Subscribed(q)'
  <2>1. Object[q] \in Objects
    BY ObjectOfParameter
  <2>2. CASE Object[q] = o
    BY <2>2, <1>3, <1>5, <1>10 DEF Subscribed
  <2>3. CASE Object[q] # o
    <3>1. Infos(Object[q])' = Infos(Object[q])
      BY <2>1, <2>3, <1>8 DEF Infos
    <3> QED BY <3>1 DEF Subscribed
  <2> QED BY <2>2, <2>3
<1>12. ASSUME rest = <<>>, NEW q \in Parameters, Object[q] = o PROVE ~ Subscribed(q)'
  BY <1>12, <1>9, <1>10 DEF Subscribed
<1>13. ASSUME NEW q \in Parameters, ListedOnce(q) PROVE ListedOnce(q)'
  <2>1. Object[q] \in Objects
    BY ObjectOfParameter
  <2>2. CASE Object[q] = o
    <3>1. Infos(Object[q])' = rest \/ Infos(Object[q])' = <<>>
      BY <2>2, <1>6, <1>8 DEF Infos
    <3>2. Once(rest, q)
      BY <2>2, <1>13, <1>once
    <3>3. \A i \in DOMAIN <<>> : FALSE
      OBVIOUS
    <3> QED BY <3>1, <3>2, <3>3, Zenon DEF ListedOnce, Once
  <2>3. CASE Object[q] # o
    <3>1. Infos(Object[q])' = Infos(Object[q])
      BY <2>1, <2>3, <1>8 DEF Infos
    <3> QED BY <3>1, <1>13, Zenon DEF ListedOnce
  <2> QED BY <2>2, <2>3
<1>14. ListedOnce(p) => ~ Subscribed(p)'
  <2>1. ListedOnce(p) => p \notin Range(rest)
    BY <1>once
  <2> QED BY <2>1, <1>10, Zenon DEF Subscribed
<1> QED BY <1>3, <1>6, <1>8, <1>11, <1>12, <1>13, <1>14

LEMMA TypeInit == Init => TypeOK
<1> SUFFICES ASSUME Init PROVE TypeOK
  OBVIOUS
<1>1. dm \in [Parameters -> Values] /\ \A p \in Parameters : dm[p] \in Domain[p]
  BY ParameterAssumption DEF Init
<1>2. known \in [Parameters -> Values]
  BY <1>1 DEF Init
<1>3. /\ Subscription \in [Parameters -> Seq(Instances)]
      /\ bus \subseteq Objects
      /\ acsSubsList \in [Objects -> Seq(Parameters) \cup {NULL}]
      /\ cached \in [Parameters -> Values \cup {NULL}]
      /\ mode \in [Parameters -> Modes]
      /\ hidden \subseteq Parameters /\ misled \subseteq Parameters
      /\ refused \subseteq Parameters /\ again \subseteq Parameters
  BY DEF Init, Modes
<1>4. DOMAIN queue = Objects /\ \A o \in Objects : queue[o] \in Seq(Notifications(o))
  BY DEF Init
<1>5. handling = NULL /\ spv = NULL
  BY DEF Init
<1>6. /\ modes \in 0 .. MaxModes /\ changes \in 0 .. MaxChanges
      /\ sets \in 0 .. MaxSets /\ faults \in 0 .. MaxFaults
  BY ParameterAssumption DEF Init
<1> QED BY <1>1, <1>2, <1>3, <1>4, <1>5, <1>6 DEF TypeOK

\* The stored instances of a path stay a sequence of instances.
LEMMA AddToDmFacts ==
    ASSUME TypeOK, NEW p \in Parameters, NEW m \in Modes, NEW call, AddToDm(p, m, call)
    PROVE  /\ Subscription' \in [Parameters -> Seq(Instances)]
           /\ \A q \in Parameters : q # p => Subscription'[q] = Subscription[q]
           /\ call = "none" /\ Len(Subscription[p]) <= 1 =>
                Len(Subscription'[p]) = 1 /\ Subscription'[p][1].Type = m
<1>1. /\ Subscription \in [Parameters -> Seq(Instances)] /\ dm[p] \in Values
  BY DEF TypeOK
<1>2. PICK s \in Seq(Instances) : s = Subscription[p]
  BY <1>1
<1> DEFINE new == [Type |-> m, Value |-> dm[p]]
           updated == [i \in DOMAIN s |-> [s[i] EXCEPT !.Type = m]]
<1>3. new \in Instances /\ new.Type = m
  BY <1>1 DEF Instances
<1>4. \A i \in DOMAIN s : [s[i] EXCEPT !.Type = m] \in Instances /\ [s[i] EXCEPT !.Type = m].Type = m
  <2>1. \A i \in DOMAIN s : s[i] \in [Type : Modes, Value : Values]
    <3>1. \A i \in DOMAIN s : s[i] \in Instances
      OBVIOUS
    <3> QED BY <3>1 DEF Instances
  <2> QED BY <2>1 DEF Instances
<1>5. updated \in Seq(Instances) /\ Len(updated) = Len(s) /\ \A i \in DOMAIN s : updated[i].Type = m
  <2>1. DOMAIN s = 1 .. Len(s) /\ Len(s) \in Nat
    OBVIOUS
  <2>2. updated \in [1 .. Len(s) -> Instances]
    BY <2>1, <1>4
  <2>3. \A i \in DOMAIN s : updated[i].Type = m
    BY <1>4
  <2> HIDE DEF updated
  <2> QED BY <2>1, <2>2, <2>3
<1>6. \/ /\ Subscription' = [Subscription EXCEPT ![p] = Append(s, new)]
         /\ s = <<>> \/ call = "search"
      \/ Subscription' = [Subscription EXCEPT ![p] = updated] /\ s # <<>>
      \/ call = "write" /\ Subscription' = Subscription
  BY <1>2, ZenonT(30) DEF AddToDm
<1> HIDE DEF new, updated
<1>7. Append(s, new) \in Seq(Instances)
  BY <1>3
<1>8. /\ Subscription' \in [Parameters -> Seq(Instances)]
      /\ \A q \in Parameters : q # p => Subscription'[q] = Subscription[q]
  BY <1>1, <1>5, <1>6, <1>7
<1>9. ASSUME call = "none", Len(Subscription[p]) <= 1
      PROVE  Len(Subscription'[p]) = 1 /\ Subscription'[p][1].Type = m
  <2>1. CASE Subscription' = [Subscription EXCEPT ![p] = Append(s, new)] /\ s = <<>>
    <3>1. Len(Append(s, new)) = 1 /\ Append(s, new)[1] = new
      BY <2>1
    <3> QED BY <2>1, <3>1, <1>1, <1>3
  <2>2. CASE Subscription' = [Subscription EXCEPT ![p] = updated] /\ s # <<>>
    <3>1. Len(s) = 1 /\ 1 \in DOMAIN s
      <4>1. Len(s) \in Nat /\ Len(s) # 0 /\ DOMAIN s = 1 .. Len(s)
        BY <2>2
      <4>2. Len(s) <= 1
        BY <1>2, <1>9
      <4> QED BY <4>1, <4>2
    <3> QED BY <2>2, <3>1, <1>1, <1>5
  <2> QED BY <2>1, <2>2, <1>6, <1>9
<1> QED BY <1>8, <1>9

LEMMA TypeAdd ==
    ASSUME TypeOK, NEW p \in Parameters, NEW m \in Modes, AddNotification(p, m)
    PROVE  TypeOK'
<1>1. /\ UNCHANGED <<dm, queue, cached, handling, spv, changes, sets>>
      /\ modes < MaxModes /\ modes' = modes + 1
  BY DEF AddNotification
<1>2. PICK call :
        /\ Fails(call)
        /\ UNCHANGED <<acsSubsList, bus>> \/ Common_AddSubscription(p)
        /\ UNCHANGED Subscription \/ AddToDm(p, m, call)
        /\ mode' = [mode EXCEPT ![p] = m]
        /\ refused' = refused \cup {p} \/ refused' = refused \ {p}
        /\ again' = again \cup {p} \/ again' = again
        /\ \/ UNCHANGED <<known, hidden, misled>>
           \/ /\ known' = [known EXCEPT ![p] = dm[p]]
              /\ hidden' = hidden \ {p} /\ misled' = misled \ {p}
  BY ZenonT(30) DEF AddNotification, told
<1>3. /\ acsSubsList' \in [Objects -> Seq(Parameters) \cup {NULL}]
      /\ bus' \subseteq Objects
  <2>1. CASE Common_AddSubscription(p)
    BY <2>1, AddSubscriptionFacts
  <2>2. CASE UNCHANGED <<acsSubsList, bus>>
    BY <2>2 DEF TypeOK
  <2> QED BY <1>2, <2>1, <2>2
<1>4. Subscription' \in [Parameters -> Seq(Instances)]
  <2>1. CASE AddToDm(p, m, call)
    BY <2>1, AddToDmFacts
  <2>2. CASE UNCHANGED Subscription
    BY <2>2 DEF TypeOK
  <2> QED BY <1>2, <2>1, <2>2
<1>5. /\ mode' \in [Parameters -> Modes] /\ known' \in [Parameters -> Values]
      /\ hidden' \subseteq Parameters /\ misled' \subseteq Parameters
      /\ refused' \subseteq Parameters /\ again' \subseteq Parameters
  BY <1>2 DEF TypeOK
<1>6. modes' \in 0 .. MaxModes
  BY <1>1, ParameterAssumption DEF TypeOK
<1>7. faults' \in 0 .. MaxFaults
  BY <1>2, FailsFacts DEF TypeOK
<1> QED BY <1>1, <1>3, <1>4, <1>5, <1>6, <1>7 DEF TypeOK

LEMMA TypeRemove ==
    ASSUME TypeOK, NEW p \in Parameters, RemoveNotification(p)
    PROVE  TypeOK'
<1>1. /\ UNCHANGED <<dm, handling, spv, known, hidden, misled, again, changes, sets>>
      /\ modes < MaxModes /\ modes' = modes + 1
      /\ mode' = [mode EXCEPT ![p] = "Off"]
      /\ cached' = [cached EXCEPT ![p] = NULL]
      /\ refused' = refused \ {p}
  BY DEF RemoveNotification, told
<1>2. PICK call :
        /\ Fails(call)
        /\ Subscription' = Subscription \/ Subscription' = [Subscription EXCEPT ![p] = <<>>]
        /\ \/ Subscribed(p) /\ Common_DeleteSubscription(p, call)
           \/ UNCHANGED <<acsSubsList, bus, queue>>
  BY ZenonT(30) DEF RemoveNotification
<1>3. /\ acsSubsList' \in [Objects -> Seq(Parameters) \cup {NULL}]
      /\ bus' \subseteq Objects
      /\ queue' = queue \/ queue' = [queue EXCEPT ![Object[p]] = <<>>]
  <2>1. CASE Subscribed(p) /\ Common_DeleteSubscription(p, call)
    BY <2>1, DeleteSubscriptionFacts DEF TypeOK
  <2>2. CASE UNCHANGED <<acsSubsList, bus, queue>>
    BY <2>2 DEF TypeOK
  <2> QED BY <1>2, <2>1, <2>2
<1>4. DOMAIN queue' = Objects /\ \A o \in Objects : queue'[o] \in Seq(Notifications(o))
  <2>1. DOMAIN queue = Objects /\ \A o \in Objects : queue[o] \in Seq(Notifications(o))
    BY DEF TypeOK
  <2>2. ASSUME NEW o \in Objects, queue' = [queue EXCEPT ![Object[p]] = <<>>]
        PROVE  queue'[o] \in Seq(Notifications(o))
    <3>1. <<>> \in Seq(Notifications(o))
      OBVIOUS
    <3>2. queue'[o] = <<>> \/ queue'[o] = queue[o]
      BY <2>1, <2>2
    <3> QED BY <3>1, <3>2, <2>1
  <2> QED BY <2>1, <2>2, <1>3
<1>5. Subscription' \in [Parameters -> Seq(Instances)]
  <2>1. <<>> \in Seq(Instances) /\ Subscription \in [Parameters -> Seq(Instances)]
    BY DEF TypeOK
  <2> QED BY <2>1, <1>2
<1>6. /\ mode' \in [Parameters -> Modes] /\ cached' \in [Parameters -> Values \cup {NULL}]
      /\ refused' \subseteq Parameters
  BY <1>1 DEF TypeOK, Modes
<1>7. modes' \in 0 .. MaxModes
  BY <1>1, ParameterAssumption DEF TypeOK
<1>8. faults' \in 0 .. MaxFaults
  BY <1>2, FailsFacts DEF TypeOK
<1> QED BY <1>1, <1>3, <1>4, <1>5, <1>6, <1>7, <1>8 DEF TypeOK

\* What a change of values does to the queues: the notifications that wait
\* stay, and a subscribed object gets one with every parameter that changed.
LEMMA ChangedFacts ==
    ASSUME TypeOK, NEW o \in Objects, NEW new \in [Parameters -> Values],
           NEW by \in {"device", "acs"}, Changed(o, new, by),
           \A p \in Parameters : Object[p] # o => new[p] = dm[p]
    PROVE  /\ dm' = new
           /\ DOMAIN queue' = Objects
           /\ \A x \in Objects : queue'[x] \in Seq(Notifications(x))
           /\ \A x \in Objects : \A i \in DOMAIN queue[x] :
                i \in DOMAIN queue'[x] /\ queue'[x][i] = queue[x][i]
           /\ o \in bus =>
                \A p \in Parameters : new[p] # dm[p] =>
                  \E i \in DOMAIN queue'[o] :
                    queue'[o][i].by = by /\ p \in DOMAIN queue'[o][i].to
<1> DEFINE what == {p \in Parameters : new[p] # dm[p]}
           n == [by |-> by, to |-> [p \in what |-> new[p]]]
<1>1. DOMAIN queue = Objects /\ \A x \in Objects : queue[x] \in Seq(Notifications(x))
  BY DEF TypeOK
<1>2. /\ dm' = new
      /\ \/ o \in bus /\ what # {} /\ queue' = [queue EXCEPT ![o] = Append(queue[o], n)]
         \/ (o \notin bus \/ what = {}) /\ queue' = queue
  BY DEF Changed
<1>3. CASE (o \notin bus \/ what = {}) /\ queue' = queue
  BY <1>1, <1>2, <1>3
<1>4. CASE o \in bus /\ what # {} /\ queue' = [queue EXCEPT ![o] = Append(queue[o], n)]
  <2>1. n \in Notifications(o)
    <3>1. what \in (SUBSET {p \in Parameters : Object[p] = o}) \ {{}}
      BY <1>4
    <3>2. [p \in what |-> new[p]] \in [what -> Values]
      OBVIOUS
    <3> HIDE DEF what
    <3>3. [p \in what |-> new[p]] \in Changes(o)
      BY <3>1, <3>2 DEF Changes
    <3> QED BY <3>3 DEF Notifications
  <2>2. n.by = by /\ DOMAIN n.to = what
    OBVIOUS
  <2>3. PICK m \in Notifications(o) : m = n
    BY <2>1
  <2> HIDE DEF n
  <2>4. PICK q \in Seq(Notifications(o)) : q = queue[o]
    BY <1>1
  <2>5. PICK r \in Seq(Notifications(o)) : r = Append(q, m)
    <3>1. Append(q, m) \in Seq(Notifications(o))
      OBVIOUS
    <3> QED BY <3>1, Zenon
  <2>6. /\ Len(r) = Len(q) + 1 /\ \A i \in 1 .. Len(q) : r[i] = q[i]
        /\ r[Len(q) + 1] = m /\ Len(q) \in Nat
        /\ DOMAIN q = 1 .. Len(q) /\ DOMAIN r = 1 .. Len(q) + 1
    BY <2>5
  <2>7. /\ DOMAIN queue' = Objects /\ queue'[o] = r
        /\ \A x \in Objects : x # o => queue'[x] = queue[x]
    BY <1>1, <1>4, <2>3, <2>4, <2>5
  <2>8. \A x \in Objects : queue'[x] \in Seq(Notifications(x))
    BY <1>1, <2>5, <2>7
  <2>9. \A i \in DOMAIN q : i \in DOMAIN r /\ r[i] = q[i]
    BY <2>6
  <2>10. \A x \in Objects : \A i \in DOMAIN queue[x] :
           i \in DOMAIN queue'[x] /\ queue'[x][i] = queue[x][i]
    BY <2>4, <2>7, <2>9
  <2>11. Len(q) + 1 \in DOMAIN r
    BY <2>6
  <2>12. \A p \in Parameters : new[p] # dm[p] =>
           \E i \in DOMAIN queue'[o] :
             queue'[o][i].by = by /\ p \in DOMAIN queue'[o][i].to
    BY <2>2, <2>3, <2>6, <2>7, <2>11
  <2> QED BY <1>2, <2>7, <2>8, <2>10, <2>12
<1> QED BY <1>2, <1>3, <1>4

LEMMA TypeChanges ==
    ASSUME TypeOK, NEW o \in Objects, DeviceChanges(o)
    PROVE  TypeOK'
<1>1. /\ UNCHANGED <<Subscription, bus, acsSubsList, cached, mode, handling, spv, known, hidden,
                     misled, refused, again, modes, sets, faults>>
      /\ changes < MaxChanges /\ changes' = changes + 1
  BY DEF DeviceChanges, engine, told
<1>2. PICK new \in [Parameters -> Values] :
        /\ \A p \in Parameters : new[p] \in Domain[p] /\ (Object[p] # o => new[p] = dm[p])
        /\ Changed(o, new, "device")
  BY DEF DeviceChanges
<1>3. /\ dm' = new /\ DOMAIN queue' = Objects
      /\ \A x \in Objects : queue'[x] \in Seq(Notifications(x))
  BY <1>2, ChangedFacts
<1>4. changes' \in 0 .. MaxChanges
  BY <1>1, ParameterAssumption DEF TypeOK
<1> QED BY <1>1, <1>2, <1>3, <1>4 DEF TypeOK

LEMMA OrdersFacts ==
    ASSUME NEW S \in SUBSET Parameters, S # {}, NEW s \in Orders(S)
    PROVE  s \in Seq(Parameters) /\ s # <<>> /\ Range(s) = S
<1>1. IsFiniteSet(S)
  BY FS_Subset, ParameterAssumption
<1>2. Cardinality(S) \in Nat
  BY <1>1, FS_CardinalityType
<1>3. s \in [1 .. Cardinality(S) -> S] /\ Range(s) = S
  BY DEF Orders
<1>4. s \in Seq(S)
  BY <1>2, <1>3
<1>5. s # <<>>
  <2>1. Range(<<>>) = {}
    BY DEF Range
  <2> QED BY <2>1, <1>3
<1> QED BY <1>3, <1>4, <1>5

\* What it means that a notification is taken for its handling.
LEMMA TakeFacts ==
    ASSUME TypeOK, NEW o \in Objects, TakeNotification(o)
    PROVE  /\ DOMAIN queue' = Objects
           /\ \A x \in Objects : x # o => queue'[x] = queue[x]
           /\ queue[o] # <<>> /\ queue[o] \in Seq(Notifications(o))
           /\ queue'[o] = Tail(queue[o])
           /\ \A x \in Objects : queue'[x] \in Seq(Notifications(x))
           /\ handling' \in Handlings(o)
           /\ handling'.by = Head(queue[o]).by
           /\ Range(handling'.todo) = DOMAIN Head(queue[o]).to
<1>1. DOMAIN queue = Objects /\ \A x \in Objects : queue[x] \in Seq(Notifications(x))
  BY DEF TypeOK
<1>2. queue[o] # <<>> /\ queue' = [queue EXCEPT ![o] = Tail(queue[o])]
  BY DEF TakeNotification
<1>3. PICK q \in Seq(Notifications(o)) : q = queue[o] /\ q # <<>>
  BY <1>1, <1>2
<1>4. Tail(q) \in Seq(Notifications(o)) /\ Head(q) \in Notifications(o)
  BY <1>3, RangeTail
<1>5. PICK n \in Notifications(o) : n = Head(q)
  BY <1>4
<1>6. PICK order \in Orders(DOMAIN n.to) :
        handling' = [by |-> n.by, to |-> n.to, todo |-> order, id |-> NULL]
  BY <1>3, <1>5 DEF TakeNotification
<1>7. n.by \in {"device", "acs"} /\ n.to \in Changes(o)
  BY DEF Notifications
<1>8. DOMAIN n.to \in SUBSET Parameters /\ DOMAIN n.to # {}
  <2>1. PICK S \in (SUBSET {p \in Parameters : Object[p] = o}) \ {{}} : n.to \in [S -> Values]
    BY <1>7, Zenon DEF Changes
  <2> QED BY <2>1
<1>9. order \in Seq(Parameters) /\ order # <<>> /\ Range(order) = DOMAIN n.to
  BY <1>8, OrdersFacts
<1>10. /\ handling' \in [by : {"device", "acs"}, to : Changes(o), todo : Seq(Parameters),
                          id : Parameters \cup {NULL}]
       /\ handling'.todo = order /\ handling'.to = n.to /\ handling'.by = n.by
  BY <1>6, <1>7, <1>9
<1>11. handling' \in Handlings(o)
  BY <1>9, <1>10 DEF Handlings
<1>12. /\ DOMAIN queue' = Objects /\ queue'[o] = Tail(queue[o])
       /\ \A x \in Objects : x # o => queue'[x] = queue[x]
  BY <1>1, <1>2
<1>13. \A x \in Objects : queue'[x] \in Seq(Notifications(x))
  <2>1. queue'[o] \in Seq(Notifications(o))
    BY <1>3, <1>4, <1>12
  <2> QED BY <2>1, <1>1, <1>12
<1> QED BY <1>3, <1>5, <1>9, <1>10, <1>11, <1>12, <1>13

LEMMA TypeTake ==
    ASSUME TypeOK, NEW o \in Objects, TakeNotification(o)
    PROVE  TypeOK'
<1>1. UNCHANGED <<dm, Subscription, bus, acsSubsList, cached, mode, spv, known, hidden,
                  misled, refused, again, modes, changes, sets, faults>>
  BY DEF TakeNotification, engine, counters, told
<1> QED BY <1>1, TakeFacts DEF TypeOK

LEMMA HandlingFacts ==
    ASSUME NEW o \in Objects, NEW h \in Handlings(o)
    PROVE  /\ h.todo \in Seq(Parameters) /\ h.todo # <<>>
           /\ h.id \in Parameters \cup {NULL} /\ h.by \in {"device", "acs"}
           /\ Range(h.todo) \subseteq Parameters
           /\ Head(h.todo) \in Parameters /\ Head(h.todo) \in Range(h.todo)
           /\ h.to[Head(h.todo)] \in Values
<1>1. /\ h \in [by : {"device", "acs"}, to : Changes(o), todo : Seq(Parameters),
                id : Parameters \cup {NULL}]
      /\ h.todo # <<>> /\ Range(h.todo) \subseteq DOMAIN h.to
  BY DEF Handlings
<1>2. /\ h.todo \in Seq(Parameters) /\ h.to \in Changes(o)
      /\ h.id \in Parameters \cup {NULL} /\ h.by \in {"device", "acs"}
  BY <1>1
<1>3. Head(h.todo) \in Parameters /\ Head(h.todo) \in Range(h.todo)
  BY <1>1, <1>2, RangeTail
<1>4. PICK S \in (SUBSET {p \in Parameters : Object[p] = o}) \ {{}} : h.to \in [S -> Values]
  BY <1>2, Zenon DEF Changes
<1>5. \A p \in DOMAIN h.to : p \in Parameters /\ h.to[p] \in Values
  BY <1>4
<1> QED BY <1>1, <1>2, <1>3, <1>5

\* An iteration of the handler gives up, or reports a parameter that has an id.
LEMMA HandleCases ==
    ASSUME TypeOK, HandleParameter
    PROVE  /\ handling # NULL
           /\ \E o \in Objects : handling \in Handlings(o)
           /\ \E call : Fails(call)
           /\ \/ Abandon
              \/ \E p \in Parameters, id \in Parameters, call \in {"none", "write"} :
                   /\ p = Head(handling.todo)
                   /\ id = IF Subscribed(p) THEN p ELSE handling.id
                   /\ Report(id, p, call) /\ GoOn(id)
<1>1. handling # NULL
  BY DEF HandleParameter
<1>2. PICK o \in Objects : handling \in Handlings(o)
  BY <1>1 DEF TypeOK
<1>3. PICK p \in Parameters : p = Head(handling.todo)
  BY <1>2, HandlingFacts
<1>4. PICK id : id = IF Subscribed(p) THEN p ELSE handling.id
  OBVIOUS
<1>5. id \in Parameters \cup {NULL}
  BY <1>2, <1>3, <1>4, HandlingFacts
<1> DEFINE dropped == IF id = NULL THEN TRUE
                      ELSE mode[id] = "Off" \/ (id \in IpParameters /\ handling.to[p] = EMPTY)
<1>6. \/ dropped /\ Abandon /\ Fails("none")
      \/ ~dropped /\ cached[id] # handling.to[p] /\ Abandon /\ Fails("read")
      \/ /\ ~dropped
         /\ \E call \in {"none", "write"} : Fails(call) /\ Report(id, p, call)
         /\ GoOn(id)
  BY <1>3, <1>4, ZenonT(30) DEF HandleParameter
<1>7. ~dropped => id \in Parameters
  BY <1>5
<1> HIDE DEF dropped
<1> QED BY <1>1, <1>2, <1>3, <1>4, <1>6, <1>7

\* The value of the stored instances of a path is written, their types stay.
LEMMA ReportFacts ==
    ASSUME TypeOK, NEW id \in Parameters, NEW p, NEW call, Report(id, p, call),
           handling.to[p] \in Values
    PROVE  /\ Subscription' \in [Parameters -> Seq(Instances)]
           /\ \A q \in Parameters : Len(Subscription'[q]) = Len(Subscription[q])
           /\ \A q \in Parameters : \A i \in DOMAIN Subscription[q] :
                Subscription'[q][i].Type = Subscription[q][i].Type
<1>1. Subscription \in [Parameters -> Seq(Instances)]
  BY DEF TypeOK
<1>2. PICK s \in Seq(Instances) : s = Subscription[id]
  BY <1>1
<1>3. PICK value \in Values : value = handling.to[p]
  OBVIOUS
<1> DEFINE updated == [i \in DOMAIN s |-> [s[i] EXCEPT !.Value = value]]
<1>4. \A i \in DOMAIN s : /\ [s[i] EXCEPT !.Value = value] \in Instances
                          /\ [s[i] EXCEPT !.Value = value].Type = s[i].Type
  <2>1. \A i \in DOMAIN s : s[i] \in Instances
    OBVIOUS
  <2>2. \A i \in DOMAIN s : s[i] \in [Type : Modes, Value : Values]
    BY <2>1 DEF Instances
  <2> QED BY <2>2 DEF Instances
<1>5. updated \in Seq(Instances) /\ Len(updated) = Len(s) /\ \A i \in DOMAIN s : updated[i].Type = s[i].Type
  <2>1. DOMAIN s = 1 .. Len(s) /\ Len(s) \in Nat
    OBVIOUS
  <2>2. updated \in [1 .. Len(s) -> Instances]
    BY <2>1, <1>4
  <2>3. \A i \in DOMAIN s : updated[i].Type = s[i].Type
    BY <1>4
  <2> HIDE DEF updated
  <2> QED BY <2>1, <2>2, <2>3
<1>6. Subscription' = Subscription \/ Subscription' = [Subscription EXCEPT ![id] = updated]
  BY <1>2, <1>3 DEF Report
<1> HIDE DEF updated
<1>7. CASE Subscription' = Subscription
  BY <1>1, <1>7
<1>8. CASE Subscription' = [Subscription EXCEPT ![id] = updated]
  <2>1. /\ Subscription' \in [Parameters -> Seq(Instances)]
        /\ Subscription'[id] = updated
        /\ \A q \in Parameters : q # id => Subscription'[q] = Subscription[q]
    BY <1>1, <1>5, <1>8
  <2> QED BY <2>1, <1>2, <1>5
<1> QED BY <1>6, <1>7, <1>8

LEMMA GoOnFacts ==
    ASSUME NEW o \in Objects, handling \in Handlings(o), NEW id \in Parameters, GoOn(id)
    PROVE  \/ handling' = NULL /\ Range(handling.todo) = {Head(handling.todo)}
           \/ /\ handling' \in Handlings(o)
              /\ handling'.by = handling.by
              /\ \A q \in Range(handling.todo) :
                   q # Head(handling.todo) => q \in Range(handling'.todo)
<1>1. PICK h \in [by : {"device", "acs"}, to : Changes(o), todo : Seq(Parameters),
                  id : Parameters \cup {NULL}] :
        h = handling /\ h.todo # <<>> /\ Range(h.todo) \subseteq DOMAIN h.to
  BY DEF Handlings
<1>2. PICK s \in Seq(Parameters) : s = h.todo
  OBVIOUS
<1>3. /\ Tail(s) \in Seq(Parameters) /\ Range(Tail(s)) \subseteq Range(s)
      /\ \A x \in Range(s) : x # Head(s) => x \in Range(Tail(s))
      /\ Len(s) = 1 => Range(s) = {Head(s)}
      /\ Len(s) # 1 => Tail(s) # <<>>
  BY <1>1, <1>2, RangeTail
<1>4. PICK r \in Seq(Parameters) : r = Tail(s)
  BY <1>3, Zenon
<1>5. \/ handling' = NULL /\ Len(s) = 1
      \/ handling' = [h EXCEPT !.todo = r, !.id = id] /\ Len(s) # 1
  BY <1>1, <1>2, <1>4 DEF GoOn
<1>6. CASE handling' = NULL /\ Len(s) = 1
  BY <1>1, <1>2, <1>3, <1>6
<1>7. CASE handling' = [h EXCEPT !.todo = r, !.id = id] /\ Len(s) # 1
  <2>1. /\ handling' \in [by : {"device", "acs"}, to : Changes(o), todo : Seq(Parameters),
                           id : Parameters \cup {NULL}]
        /\ handling'.todo = r /\ handling'.to = h.to /\ handling'.by = h.by
    BY <1>7
  <2>2. r # <<>> /\ Range(r) \subseteq DOMAIN h.to
    BY <1>1, <1>2, <1>3, <1>4, <1>7
  <2>3. handling' \in Handlings(o)
    BY <2>1, <2>2 DEF Handlings
  <2> QED BY <2>1, <2>3, <1>1, <1>2, <1>3, <1>4
<1> QED BY <1>5, <1>6, <1>7

LEMMA TypeHandle ==
    ASSUME TypeOK, HandleParameter
    PROVE  TypeOK'
<1>1. UNCHANGED <<dm, bus, queue, acsSubsList, mode, spv, refused, again, modes, changes, sets>>
  BY DEF HandleParameter
<1>2. PICK o \in Objects : handling \in Handlings(o)
  BY HandleCases
<1>3. faults' \in 0 .. MaxFaults
  BY HandleCases, FailsFacts DEF TypeOK
<1>4. CASE Abandon
  <2>1. handling' = NULL /\ hidden' \subseteq Parameters
    BY <1>2, <1>4, HandlingFacts DEF Abandon, TypeOK
  <2>2. UNCHANGED <<Subscription, cached, known, misled>>
    BY <1>4 DEF Abandon
  <2> QED BY <1>1, <1>3, <2>1, <2>2 DEF TypeOK
<1>5. ASSUME NEW p \in Parameters, NEW id \in Parameters, NEW call \in {"none", "write"},
             p = Head(handling.todo), Report(id, p, call), GoOn(id)
      PROVE  TypeOK'
  <2>1. handling' = NULL \/ handling' \in Handlings(o)
    BY <1>2, <1>5, GoOnFacts
  <2>2. handling.to[p] \in Values
    BY <1>2, <1>5, HandlingFacts
  <2>3. Subscription' \in [Parameters -> Seq(Instances)]
    BY <1>5, <2>2, ReportFacts
  <2>4. /\ cached' = cached \/ cached' = [cached EXCEPT ![id] = NULL]
        /\ known' = known \/ known' = [known EXCEPT ![id] = dm[id]]
        /\ hidden' \subseteq hidden \cup {p} /\ misled' \subseteq misled
    BY <1>5 DEF Report
  <2>5. /\ cached' \in [Parameters -> Values \cup {NULL}]
        /\ known' \in [Parameters -> Values] /\ hidden' \subseteq Parameters
        /\ misled' \subseteq Parameters
    BY <2>4 DEF TypeOK
  <2> QED BY <1>1, <1>3, <2>1, <2>3, <2>5 DEF TypeOK
<1> QED BY <1>4, <1>5, HandleCases

LEMMA TypeSet ==
    ASSUME TypeOK, NEW list \in Lists, SetParameterValues(list)
    PROVE  TypeOK'
<1>1. /\ UNCHANGED <<dm, Subscription, bus, queue, acsSubsList, cached, mode, handling, known,
                     hidden, misled, refused, again, modes, changes, faults>>
      /\ sets < MaxSets /\ sets' = sets + 1
  BY DEF SetParameterValues, engine, told
<1>2. list \in Seq(Settings)
  <2>1. PICK n \in 1 .. MaxList : list \in [1 .. n -> Settings]
    BY Zenon DEF Lists
  <2>2. n \in Nat
    BY ParameterAssumption
  <2> QED BY <2>1, <2>2
<1>3. \/ spv' = NULL
      \/ spv' \in Rpcs
  <2>1. [list |-> list, i |-> 1, error |-> FALSE, done |-> {}, failed |-> {}] \in Rpcs
    BY <1>2 DEF Rpcs
  <2> QED BY <2>1, Zenon DEF SetParameterValues
<1>4. sets' \in 0 .. MaxSets
  BY <1>1, ParameterAssumption DEF TypeOK
<1> QED BY <1>1, <1>3, <1>4 DEF TypeOK

LEMMA WithValue ==
    ASSUME NEW group, NEW f, DOMAIN f = Parameters, NEW p \in Parameters
    PROVE  /\ (\E s \in group : s.p = p) =>
                With(f, group)[p] = (CHOOSE s \in group : s.p = p).v
           /\ ~ (\E s \in group : s.p = p) => With(f, group)[p] = f[p]
<1>1. With(f, group)[p] = IF \E s \in group : s.p = p
                          THEN (CHOOSE s \in group : s.p = p).v ELSE f[p]
  BY DEF With
<1> QED BY <1>1

\* With gives a parameter the value of its setting, or leaves it alone.
LEMMA WithFacts ==
    ASSUME NEW group \in SUBSET Settings, NEW V, NEW f \in [Parameters -> V]
    PROVE  /\ With(f, group) \in [Parameters -> V \cup Values]
           /\ \A p \in Parameters : (\E s \in group : s.p = p) =>
                /\ With(f, group)[p] = (CHOOSE s \in group : s.p = p).v
                /\ With(f, group)[p] \in Domain[p]
           /\ \A p \in Parameters : ~ (\E s \in group : s.p = p) => With(f, group)[p] = f[p]
<1>1. ASSUME NEW p \in Parameters, \E s \in group : s.p = p
      PROVE  (CHOOSE s \in group : s.p = p).v \in Domain[p]
  <2>1. PICK c \in group : c = (CHOOSE s \in group : s.p = p) /\ c.p = p
    BY <1>1
  <2>2. PICK q \in Parameters : c \in [p : {q}, v : Domain[q]]
    BY DEF Settings
  <2>3. c.p = q /\ c.v \in Domain[q]
    BY <2>2
  <2> QED BY <2>1, <2>3
<1>2. \A p \in Parameters : Domain[p] \subseteq Values
  BY DEF Values
<1>3. ASSUME NEW p \in Parameters
      PROVE  /\ (\E s \in group : s.p = p) =>
                  With(f, group)[p] = (CHOOSE s \in group : s.p = p).v
             /\ ~ (\E s \in group : s.p = p) => With(f, group)[p] = f[p]
  <2>1. DOMAIN f = Parameters
    OBVIOUS
  <2> QED BY <2>1, WithValue
<1>4. With(f, group) = [p \in Parameters |-> With(f, group)[p]]
  BY DEF With
<1>5. \A p \in Parameters : With(f, group)[p] \in V \cup Values
  BY <1>1, <1>2, <1>3
<1>6. With(f, group) \in [Parameters -> V \cup Values]
  BY <1>4, <1>5
<1> QED BY <1>1, <1>3, <1>6

\* The entries of the list up to last, all of one object, are set or refused.
Served(o, last, group, done, failed) ==
    /\ spv.i <= last /\ last <= Len(spv.list)
    /\ group = {spv.list[j] : j \in spv.i .. last}
    /\ \A s \in group : Object[s.p] = o
    /\ cached' = With(cached, group)
    /\ \/ /\ UNCHANGED <<dm, queue>>
          /\ done = spv.done /\ failed = spv.failed \cup {s.p : s \in group}
       \/ /\ Changed(o, With(dm, group), "acs")
          /\ done = spv.done \cup {s.p : s \in group}
          /\ failed = spv.failed \/ failed = spv.failed \cup {s.p : s \in group}

LEMMA SetValuesFacts ==
    ASSUME TypeOK, SetValues
    PROVE  /\ spv # NULL /\ spv \in Rpcs /\ spv' \in Rpcs
           /\ \E call : Fails(call)
           /\ \E o \in Objects, last \in Nat, group \in SUBSET Settings,
                 done \in SUBSET Parameters, failed \in SUBSET Parameters :
                /\ Served(o, last, group, done, failed)
                /\ spv'.list = spv.list /\ spv'.i = last + 1
                /\ spv'.done = done /\ spv'.failed = failed
<1>1. spv # NULL /\ spv \in Rpcs
  BY DEF TypeOK, SetValues
<1>2. /\ spv.list \in Seq(Settings) /\ spv.i \in Nat \ {0}
      /\ spv.done \in SUBSET Parameters /\ spv.failed \in SUBSET Parameters
  BY <1>1 DEF Rpcs
<1>3. spv.i <= Len(spv.list)
  BY <1>1 DEF SetValues
<1> DEFINE o == Object[spv.list[spv.i].p]
           G(last) == {spv.list[j] : j \in spv.i .. last}
           P(last) == {s.p : s \in G(last)}
<1>4. PICK last \in spv.i .. Len(spv.list) :
        /\ \A s \in G(last) : Object[s.p] = o
        /\ cached' = With(cached, G(last))
        /\ \E call \in {"none", "refused", "timeout"} :
             /\ Fails(call)
             /\ IF call = "refused" THEN UNCHANGED <<dm, queue>>
                ELSE Changed(o, With(dm, G(last)), "acs")
             /\ spv' = [spv EXCEPT !.i = last + 1, !.error = (call # "none"),
                                 !.done = IF call = "refused" THEN @ ELSE @ \cup P(last),
                                 !.failed = IF call = "none" THEN @ ELSE @ \cup P(last)]
  BY ZenonT(30) DEF SetValues
<1>5. \A j \in spv.i .. last : spv.list[j] \in Settings
  <2>1. \A j \in spv.i .. last : j \in DOMAIN spv.list
    BY <1>2, <1>4
  <2> QED BY <2>1, <1>2
<1>6. G(last) \in SUBSET Settings
  BY <1>5
<1>7. \A s \in Settings : s.p \in Parameters
  BY DEF Settings
<1>8. o \in Objects /\ P(last) \subseteq Parameters
  <2>1. spv.i \in spv.i .. last
    BY <1>2, <1>4
  <2>2. o \in Objects
    BY <2>1, <1>5, <1>7, ObjectOfParameter
  <2>3. P(last) \subseteq Parameters
    <3> HIDE DEF G
    <3> QED BY <1>6, <1>7
  <2> QED BY <2>2, <2>3
<1>9. PICK call \in {"none", "refused", "timeout"} :
        /\ Fails(call)
        /\ IF call = "refused" THEN UNCHANGED <<dm, queue>>
           ELSE Changed(o, With(dm, G(last)), "acs")
        /\ spv' = [spv EXCEPT !.i = last + 1, !.error = (call # "none"),
                            !.done = IF call = "refused" THEN @ ELSE @ \cup P(last),
                            !.failed = IF call = "none" THEN @ ELSE @ \cup P(last)]
  <2> HIDE DEF G, P, o
  <2> QED BY <1>4, Zenon
<1> DEFINE D == IF call = "refused" THEN spv.done ELSE spv.done \cup P(last)
           F == IF call = "none" THEN spv.failed ELSE spv.failed \cup P(last)
           E == call # "none"
<1>10. D \in SUBSET Parameters /\ F \in SUBSET Parameters /\ E \in BOOLEAN
  <2> HIDE DEF P
  <2> QED BY <1>2, <1>8
<1>11. last \in Nat /\ last + 1 \in Nat \ {0} /\ spv.i <= last /\ last <= Len(spv.list)
  BY <1>2, <1>4
<1>12. spv' = [spv EXCEPT !.i = last + 1, !.error = E, !.done = D, !.failed = F]
  <2> HIDE DEF P, G, o
  <2> QED BY <1>9
<1>13. \/ /\ UNCHANGED <<dm, queue>>
          /\ D = spv.done /\ F = spv.failed \cup P(last)
       \/ /\ Changed(o, With(dm, G(last)), "acs")
          /\ D = spv.done \cup P(last)
          /\ F = spv.failed \/ F = spv.failed \cup P(last)
  <2>1. CASE call = "refused"
    <3>1. call # "none"
      BY <2>1
    <3> HIDE DEF P, G, o
    <3> QED BY <2>1, <3>1, <1>9
  <2>2. CASE call # "refused"
    <3> HIDE DEF P, G, o
    <3> QED BY <2>2, <1>9, Zenon
  <2> QED BY <2>1, <2>2
<1>14. Served(o, last, G(last), D, F)
  <2>1. P(last) = {s.p : s \in G(last)} /\ G(last) = {spv.list[j] : j \in spv.i .. last}
    OBVIOUS
  <2> HIDE DEF D, F, E, G, P, o
  <2> QED BY <1>4, <1>11, <1>13, <2>1, Zenon DEF Served
<1> HIDE DEF D, F, E, G, P, o
<1>15. /\ spv' \in Rpcs /\ spv'.list = spv.list /\ spv'.i = last + 1
       /\ spv'.done = D /\ spv'.failed = F
  BY <1>1, <1>10, <1>11, <1>12 DEF Rpcs
<1>16. \E c : Fails(c)
  BY <1>9, Zenon
<1> QED BY <1>1, <1>6, <1>8, <1>10, <1>11, <1>14, <1>15, <1>16, Zenon

\* What is set are values of the object, and of the parameters of the group.
LEMMA SetFacts ==
    ASSUME TypeOK, NEW o \in Objects, NEW group \in SUBSET Settings,
           \A s \in group : Object[s.p] = o, Changed(o, With(dm, group), "acs")
    PROVE  \E new \in [Parameters -> Values] :
             /\ new = With(dm, group) /\ dm' = new /\ Changed(o, new, "acs")
             /\ \A p \in Parameters : new[p] \in Domain[p]
             /\ \A p \in Parameters : Object[p] # o => new[p] = dm[p]
             /\ \A p \in Parameters : ~ (\E s \in group : s.p = p) => new[p] = dm[p]
             /\ \A p \in Parameters : (\E s \in group : s.p = p) =>
                  new[p] = (CHOOSE s \in group : s.p = p).v
<1>1. dm \in [Parameters -> Values] /\ \A p \in Parameters : dm[p] \in Domain[p]
  BY DEF TypeOK
<1>2. Values \cup Values = Values
  OBVIOUS
<1>3. PICK new \in [Parameters -> Values] : new = With(dm, group)
  BY <1>1, <1>2, WithFacts, Zenon
<1>4. /\ \A p \in Parameters : ~ (\E s \in group : s.p = p) => new[p] = dm[p]
      /\ \A p \in Parameters : (\E s \in group : s.p = p) =>
           new[p] = (CHOOSE s \in group : s.p = p).v
  <2>1. DOMAIN dm = Parameters
    BY <1>1
  <2>2. ASSUME NEW p \in Parameters
        PROVE  /\ (\E s \in group : s.p = p) =>
                    With(dm, group)[p] = (CHOOSE s \in group : s.p = p).v
               /\ ~ (\E s \in group : s.p = p) => With(dm, group)[p] = dm[p]
    BY <2>1, WithValue
  <2> QED BY <1>3, <2>2, Zenon
<1>5. \A p \in Parameters : Object[p] # o => new[p] = dm[p]
  <2>1. \A p \in Parameters : Object[p] # o => ~ (\E s \in group : s.p = p)
    OBVIOUS
  <2> QED BY <2>1, <1>4, Zenon
<1>6. \A p \in Parameters : new[p] \in Domain[p]
  BY <1>1, <1>3, WithFacts
<1>7. dm' = new
  BY <1>3, Zenon DEF Changed
<1> QED BY <1>3, <1>4, <1>5, <1>6, <1>7, Zenon

LEMMA TypeSetValues ==
    ASSUME TypeOK, SetValues
    PROVE  TypeOK'
<1>1. UNCHANGED <<Subscription, bus, acsSubsList, mode, handling, known, hidden, misled, refused,
                  again, modes, changes, sets>>
  BY DEF SetValues, told
<1>2. PICK o \in Objects, group \in SUBSET Settings :
        /\ \A s \in group : Object[s.p] = o
        /\ cached' = With(cached, group)
        /\ UNCHANGED <<dm, queue>> \/ Changed(o, With(dm, group), "acs")
  BY SetValuesFacts, Zenon DEF Served
<1>3. cached' \in [Parameters -> Values \cup {NULL}]
  <2>1. cached' \in [Parameters -> (Values \cup {NULL}) \cup Values]
    BY <1>2, WithFacts DEF TypeOK
  <2>2. (Values \cup {NULL}) \cup Values = Values \cup {NULL}
    OBVIOUS
  <2> QED BY <2>1, <2>2
<1>4. faults' \in 0 .. MaxFaults /\ spv' \in Rpcs
  BY SetValuesFacts, FailsFacts DEF TypeOK
<1>5. CASE UNCHANGED <<dm, queue>>
  BY <1>1, <1>3, <1>4, <1>5 DEF TypeOK
<1>6. CASE Changed(o, With(dm, group), "acs")
  <2>1. PICK new \in [Parameters -> Values] :
          /\ dm' = new /\ Changed(o, new, "acs")
          /\ \A p \in Parameters : new[p] \in Domain[p]
          /\ \A p \in Parameters : Object[p] # o => new[p] = dm[p]
    BY <1>2, <1>6, SetFacts
  <2>2. DOMAIN queue' = Objects /\ \A x \in Objects : queue'[x] \in Seq(Notifications(x))
    BY <2>1, ChangedFacts
  <2> QED BY <1>1, <1>3, <1>4, <2>1, <2>2 DEF TypeOK
<1> QED BY <1>2, <1>5, <1>6

\* What is answered, and what the ACS makes of it.
LEMMA AnswerFacts ==
    ASSUME TypeOK, Answer
    PROVE  /\ spv # NULL /\ spv \in Rpcs /\ spv' = NULL /\ spv.i > Len(spv.list)
           /\ Range(spv.list) \in SUBSET Settings
           /\ \/ misled' = misled \cup spv.done /\ known' = known
              \/ /\ known' = With(known, Range(spv.list))
                 /\ misled' = (misled \ spv.done) \cup (spv.failed \ spv.done)
           /\ known' \in [Parameters -> Values] /\ misled' \subseteq Parameters
<1>1. spv # NULL /\ spv' = NULL /\ spv.i > Len(spv.list)
  BY DEF Answer
<1>2. spv \in Rpcs /\ known \in [Parameters -> Values] /\ misled \subseteq Parameters
  BY <1>1 DEF TypeOK
<1>3. /\ spv.list \in Seq(Settings)
      /\ spv.done \in SUBSET Parameters /\ spv.failed \in SUBSET Parameters
  BY <1>2 DEF Rpcs
<1>4. Range(spv.list) \in SUBSET Settings
  BY <1>3 DEF Range
<1>5. \/ misled' = misled \cup spv.done /\ known' = known
      \/ /\ known' = With(known, Range(spv.list))
         /\ misled' = (misled \ spv.done) \cup (spv.failed \ spv.done)
  BY Zenon DEF Answer
<1>6. With(known, Range(spv.list)) \in [Parameters -> Values]
  <2>1. Values \cup Values = Values
    OBVIOUS
  <2> QED BY <2>1, <1>2, <1>4, WithFacts, Zenon
<1>7. known' \in [Parameters -> Values]
  BY <1>2, <1>5, <1>6, Zenon
<1>8. misled' \subseteq Parameters
  BY <1>2, <1>3, <1>5
<1> QED BY <1>1, <1>2, <1>4, <1>5, <1>7, <1>8

LEMMA TypeAnswer == TypeOK /\ Answer => TypeOK'
<1> SUFFICES ASSUME TypeOK, Answer PROVE TypeOK'
  OBVIOUS
<1>1. UNCHANGED <<dm, Subscription, bus, queue, acsSubsList, cached, mode, handling,
                  hidden, refused, again, modes, changes, sets, faults>>
  BY DEF Answer, engine, counters
<1> QED BY <1>1, AnswerFacts DEF TypeOK

LEMMA TypeRestart == TypeOK /\ Restart => TypeOK'
<1> SUFFICES ASSUME TypeOK, Restart PROVE TypeOK'
  OBVIOUS
<1>1. UNCHANGED <<dm, Subscription, known, hidden, misled, modes, changes, sets>>
  BY DEF Restart, told
<1>2. /\ bus' \subseteq Objects
      /\ acsSubsList' \in [Objects -> Seq(Parameters) \cup {NULL}]
      /\ cached' \in [Parameters -> Values \cup {NULL}]
      /\ mode' \in [Parameters -> Modes]
      /\ handling' = NULL /\ spv' = NULL
      /\ refused' \subseteq Parameters /\ again' \subseteq Parameters
  BY DEF Restart, Modes
<1>3. DOMAIN queue' = Objects /\ \A o \in Objects : queue'[o] \in Seq(Notifications(o))
  BY DEF Restart
<1>4. faults' \in 0 .. MaxFaults
  BY ParameterAssumption DEF Restart, TypeOK
<1> QED BY <1>1, <1>2, <1>3, <1>4 DEF TypeOK

LEMMA TypeStep == TypeOK /\ [Next]_vars => TypeOK'
<1> SUFFICES ASSUME TypeOK, [Next]_vars PROVE TypeOK'
  OBVIOUS
<1>1. ASSUME NEW p \in Parameters, RemoveNotification(p) PROVE TypeOK'
  BY <1>1, TypeRemove
<1>2. ASSUME NEW p \in Parameters, NEW m \in Modes, AddNotification(p, m) PROVE TypeOK'
  BY <1>2, TypeAdd
<1>3. ASSUME NEW o \in Objects, DeviceChanges(o) PROVE TypeOK'
  BY <1>3, TypeChanges
<1>4. ASSUME NEW o \in Objects, TakeNotification(o) PROVE TypeOK'
  BY <1>4, TypeTake
<1>5. CASE SetValues
  BY <1>5, TypeSetValues
<1>6. ASSUME NEW list \in Lists, SetParameterValues(list) PROVE TypeOK'
  BY <1>6, TypeSet
<1>7. CASE UNCHANGED vars
  BY <1>7 DEF vars, counters, told, TypeOK
<1> QED BY <1>1, <1>2, <1>3, <1>4, <1>5, <1>6, <1>7, TypeHandle, TypeAnswer, TypeRestart DEF Next

\* The state of the adapter is well typed: in particular a notification waits
\* with the object it is about and carries parameters of that object only, and
\* the handler never runs out of parameters while it is busy.
THEOREM ParameterTypes == Spec => []TypeOK
BY TypeInit, TypeStep, PTL DEF Spec

-----------------------------------------------------------------------------
(***************************************************************************)
(* The bus subscriptions and the list.                                     *)
(***************************************************************************)

LEMMA BusInit == Init => BusMatchesList
<1> SUFFICES ASSUME Init PROVE BusMatchesList
  OBVIOUS
<1>1. bus = {o \in Objects : acsSubsList[o] # NULL}
  BY DEF Init
<1>2. \A p \in Parameters : mode[p] \notin {"Active", "Forced"}
  BY DEF Init
<1>3. \A p \in Parameters : ListedOnce(p) /\ ~ Subscribed(p)
  BY ObjectOfParameter DEF Init, ListedOnce, Subscribed, Infos, Range
<1> QED BY <1>1, <1>2, <1>3 DEF BusMatchesList

LEMMA BusFrame ==
    ASSUME BusMatchesList, UNCHANGED <<bus, acsSubsList, mode, refused, again>>
    PROVE  BusMatchesList'
BY DEF BusMatchesList, ListedOnce, Subscribed, Infos

LEMMA BusAdd ==
    ASSUME TypeOK, BusMatchesList, NEW p \in Parameters, NEW m \in Modes, AddNotification(p, m)
    PROVE  BusMatchesList'
<1>1. /\ m # "Off" /\ mode' = [mode EXCEPT ![p] = m]
      /\ \/ UNCHANGED <<acsSubsList, bus, again>> /\ refused' = refused \cup {p}
         \/ /\ m = "Passive" /\ UNCHANGED <<acsSubsList, bus, again>>
            /\ refused' = refused \ {p}
         \/ /\ Common_AddSubscription(p) /\ refused' = refused \ {p}
            /\ again' = IF Subscribed(p) THEN again \cup {p} ELSE again
  BY ZenonT(30) DEF AddNotification
<1>2. /\ bus = {o \in Objects : acsSubsList[o] # NULL}
      /\ \A q \in Parameters : mode[q] \in {"Active", "Forced"} /\ q \notin refused => Subscribed(q)
      /\ \A q \in Parameters :
           q \notin again => ListedOnce(q) /\ (mode[q] = "Off" => ~ Subscribed(q))
      /\ mode \in [Parameters -> Modes]
  BY DEF BusMatchesList, TypeOK
<1>3. CASE /\ UNCHANGED <<acsSubsList, bus, again>>
           /\ \/ refused' = refused \cup {p}
              \/ m = "Passive" /\ refused' = refused \ {p}
  <2>1. \A q \in Parameters : (Subscribed(q)' <=> Subscribed(q)) /\ (ListedOnce(q)' <=> ListedOnce(q))
    BY <1>3 DEF Subscribed, ListedOnce, Infos
  <2>2. \A q \in Parameters : mode'[q] \in {"Active", "Forced"} /\ q \notin refused' => Subscribed(q)'
    BY <1>1, <1>2, <1>3, <2>1
  <2>3. \A q \in Parameters :
          q \notin again' => ListedOnce(q)' /\ (mode'[q] = "Off" => ~ Subscribed(q)')
    BY <1>1, <1>2, <1>3, <2>1
  <2> QED BY <1>2, <1>3, <2>2, <2>3 DEF BusMatchesList
<1>4. CASE /\ Common_AddSubscription(p) /\ refused' = refused \ {p}
           /\ again' = IF Subscribed(p) THEN again \cup {p} ELSE again
  <2>1. /\ bus' = bus \cup {Object[p]} /\ Object[p] \in Objects
        /\ acsSubsList'[Object[p]] # NULL
        /\ \A o \in Objects : o # Object[p] => acsSubsList'[o] = acsSubsList[o]
        /\ \A q \in Parameters : Subscribed(q)' <=> Subscribed(q) \/ q = p
        /\ \A q \in Parameters :
             (IF q = p THEN ~ Subscribed(p) ELSE ListedOnce(q)) => ListedOnce(q)'
    BY <1>4, AddSubscriptionFacts, ObjectOfParameter
  <2>2. bus' = {o \in Objects : acsSubsList'[o] # NULL}
    BY <1>2, <2>1
  <2>3. \A q \in Parameters : mode'[q] \in {"Active", "Forced"} /\ q \notin refused' => Subscribed(q)'
    BY <1>1, <1>2, <1>4, <2>1
  <2>4. \A q \in Parameters :
          q \notin again' => ListedOnce(q)' /\ (mode'[q] = "Off" => ~ Subscribed(q)')
    <3>1. SUFFICES ASSUME NEW q \in Parameters, q \notin again'
                   PROVE  ListedOnce(q)' /\ (mode'[q] = "Off" => ~ Subscribed(q)')
      OBVIOUS
    <3>2. CASE q = p
      <4>1. ~ Subscribed(p)
        BY <1>4, <3>1, <3>2
      <4>2. mode'[p] # "Off"
        BY <1>1, <1>2
      <4> QED BY <2>1, <3>2, <4>1, <4>2
    <3>3. CASE q # p
      <4>1. q \notin again /\ mode'[q] = mode[q]
        BY <1>1, <1>2, <1>4, <3>1, <3>3
      <4> QED BY <1>2, <2>1, <3>3, <4>1
    <3> QED BY <3>2, <3>3
  <2> QED BY <2>2, <2>3, <2>4 DEF BusMatchesList
<1> QED BY <1>1, <1>3, <1>4

LEMMA BusRemove ==
    ASSUME TypeOK, BusMatchesList, NEW p \in Parameters, RemoveNotification(p)
    PROVE  BusMatchesList'
<1>1. mode' = [mode EXCEPT ![p] = "Off"] /\ refused' = refused \ {p} /\ again' = again
  BY DEF RemoveNotification
<1>2. \/ \E call : Subscribed(p) /\ Common_DeleteSubscription(p, call)
      \/ ~ Subscribed(p) /\ UNCHANGED <<acsSubsList, bus>>
  BY ZenonT(30) DEF RemoveNotification
<1>3. /\ bus = {o \in Objects : acsSubsList[o] # NULL}
      /\ \A q \in Parameters : mode[q] \in {"Active", "Forced"} /\ q \notin refused => Subscribed(q)
      /\ \A q \in Parameters :
           q \notin again => ListedOnce(q) /\ (mode[q] = "Off" => ~ Subscribed(q))
      /\ mode \in [Parameters -> Modes]
  BY DEF BusMatchesList, TypeOK
<1>4. CASE ~ Subscribed(p) /\ UNCHANGED <<acsSubsList, bus>>
  <2>1. \A q \in Parameters : (Subscribed(q)' <=> Subscribed(q)) /\ (ListedOnce(q)' <=> ListedOnce(q))
    BY <1>4 DEF Subscribed, ListedOnce, Infos
  <2>2. \A q \in Parameters : mode'[q] \in {"Active", "Forced"} /\ q \notin refused' => Subscribed(q)'
    BY <1>1, <1>3, <2>1
  <2>3. \A q \in Parameters :
          q \notin again' => ListedOnce(q)' /\ (mode'[q] = "Off" => ~ Subscribed(q)')
    BY <1>1, <1>3, <1>4, <2>1
  <2> QED BY <1>3, <1>4, <2>2, <2>3 DEF BusMatchesList
<1>5. ASSUME NEW call, Subscribed(p), Common_DeleteSubscription(p, call)
      PROVE  BusMatchesList'
  <2>1. /\ \A o \in Objects : o # Object[p] => acsSubsList'[o] = acsSubsList[o]
        /\ acsSubsList[Object[p]] # NULL /\ Object[p] \in Objects
        /\ \A q \in Parameters : Subscribed(q) /\ q # p => Subscribed(q)'
        /\ \A q \in Parameters : Subscribed(q)' => Subscribed(q)
        /\ \A q \in Parameters : ListedOnce(q) => ListedOnce(q)'
        /\ ListedOnce(p) => ~ Subscribed(p)'
        /\ \/ acsSubsList'[Object[p]] # NULL /\ bus' = bus
           \/ acsSubsList'[Object[p]] = NULL /\ bus' = bus \ {Object[p]}
    BY <1>5, DeleteSubscriptionFacts, ObjectOfParameter
  <2>2. bus' = {o \in Objects : acsSubsList'[o] # NULL}
    BY <1>3, <2>1
  <2>3. \A q \in Parameters : mode'[q] \in {"Active", "Forced"} /\ q \notin refused' => Subscribed(q)'
    BY <1>1, <1>3, <2>1
  <2>4. \A q \in Parameters :
          q \notin again' => ListedOnce(q)' /\ (mode'[q] = "Off" => ~ Subscribed(q)')
    BY <1>1, <1>3, <2>1
  <2> QED BY <2>2, <2>3, <2>4 DEF BusMatchesList
<1> QED BY <1>2, <1>4, <1>5

LEMMA BusStep == TypeOK /\ BusMatchesList /\ [Next]_vars => BusMatchesList'
<1> SUFFICES ASSUME TypeOK, BusMatchesList, [Next]_vars PROVE BusMatchesList'
  OBVIOUS
<1>1. ASSUME NEW p \in Parameters, RemoveNotification(p) PROVE BusMatchesList'
  BY <1>1, BusRemove
<1>2. ASSUME NEW p \in Parameters, NEW m \in Modes, AddNotification(p, m) PROVE BusMatchesList'
  BY <1>2, BusAdd
<1>3. CASE Restart
  <2>1. bus' = {o \in Objects : acsSubsList'[o] # NULL}
    BY <1>3 DEF Restart
  <2>2. \A p \in Parameters : mode'[p] \notin {"Active", "Forced"}
    BY <1>3 DEF Restart
  <2>3. \A p \in Parameters : ListedOnce(p)' /\ ~ Subscribed(p)'
    BY <1>3, ObjectOfParameter DEF Restart, ListedOnce, Subscribed, Infos, Range
  <2> QED BY <2>1, <2>2, <2>3 DEF BusMatchesList
<1>4. ASSUME NEW o \in Objects, DeviceChanges(o) \/ TakeNotification(o)
      PROVE  BusMatchesList'
  <2>1. UNCHANGED <<bus, acsSubsList, mode, refused, again>>
    BY <1>4 DEF DeviceChanges, TakeNotification, engine
  <2> QED BY <2>1, BusFrame
<1>5. ASSUME NEW list \in Lists, SetParameterValues(list) PROVE BusMatchesList'
  <2>1. UNCHANGED <<bus, acsSubsList, mode, refused, again>>
    BY <1>5 DEF SetParameterValues, engine
  <2> QED BY <2>1, BusFrame
<1>6. CASE HandleParameter \/ SetValues \/ Answer \/ UNCHANGED vars
  <2>1. UNCHANGED <<bus, acsSubsList, mode, refused, again>>
    BY <1>6 DEF HandleParameter, SetValues, Answer, engine, vars
  <2> QED BY <2>1, BusFrame
<1> QED BY <1>1, <1>2, <1>3, <1>4, <1>5, <1>6 DEF Next

\* However notifications were turned on, changed, refused and turned off
\* before, the bus subscriptions are those of the list, every parameter the
\* engine wants to hear of has an entry unless the bus refused it last, and one
\* that was never subscribed while it was listed has one entry at most, and
\* none once its notification is off (DM_ENG_Device_Common_AddSubscription and
\* DM_ENG_Device_Common_DeleteSubscription).
THEOREM SubscriptionsAgree == Spec => []BusMatchesList
<1>1. Spec => [](TypeOK /\ BusMatchesList)
  <2>1. Init => TypeOK /\ BusMatchesList
    BY TypeInit, BusInit
  <2>2. (TypeOK /\ BusMatchesList) /\ [Next]_vars => (TypeOK /\ BusMatchesList)'
    BY TypeStep, BusStep
  <2> QED BY <2>1, <2>2, PTL DEF Spec
<1> QED BY <1>1, PTL

-----------------------------------------------------------------------------
(***************************************************************************)
(* ManagementServer.Subscription.  A parameter whose mode became Forced    *)
(* keeps the instance of its former mode, so SubscriptionsStored needs to  *)
(* know that there is never more than one.                                 *)
(***************************************************************************)

Stored(p) ==
    /\ mode[p] \in {"Passive", "Active"} => Len(Subscription[p]) = 1 /\ Subscription[p][1].Type = mode[p]
    /\ mode[p] = "Off" => Subscription[p] = <<>>
    /\ Len(Subscription[p]) <= 1

StoredInv == faults = 0 => \A p \in Parameters : Stored(p)

LEMMA StoredInit == Init => StoredInv
BY DEF Init, StoredInv, Stored

LEMMA StoredFrame ==
    ASSUME StoredInv, UNCHANGED <<Subscription, mode>>, faults' = 0 => faults = 0
    PROVE  StoredInv'
BY DEF StoredInv, Stored

LEMMA StoredAdd ==
    ASSUME TypeOK, StoredInv, NEW p \in Parameters, NEW m \in Modes, AddNotification(p, m)
    PROVE  StoredInv'
<1>1. SUFFICES ASSUME faults' = 0, NEW q \in Parameters PROVE Stored(q)'
  BY DEF StoredInv
<1>2. PICK call :
        /\ Fails(call) /\ m # "Off"
        /\ \/ call = "subscribe"
           \/ m = "Forced" /\ UNCHANGED Subscription
           \/ m # "Forced" /\ AddToDm(p, m, call)
        /\ mode' = [mode EXCEPT ![p] = m]
  BY ZenonT(30) DEF AddNotification
<1>3. faults = 0 /\ call = "none"
  BY <1>1, <1>2, FailsFacts DEF TypeOK
<1>4. Stored(q) /\ Stored(p)
  BY <1>3 DEF StoredInv
<1>5. mode \in [Parameters -> Modes] /\ mode' = [mode EXCEPT ![p] = m]
  BY <1>2, <1>3 DEF TypeOK
<1>6. CASE m = "Forced" /\ UNCHANGED Subscription
  BY <1>4, <1>5, <1>6 DEF Stored
<1>7. CASE m # "Forced" /\ AddToDm(p, m, call)
  <2>1. Len(Subscription[p]) <= 1
    BY <1>4 DEF Stored
  <2>2. /\ Len(Subscription'[p]) = 1 /\ Subscription'[p][1].Type = m
        /\ q # p => Subscription'[q] = Subscription[q]
    BY <1>3, <1>7, <2>1, AddToDmFacts
  <2>3. CASE q = p
    <3>1. mode'[p] = m /\ m # "Off"
      BY <1>2, <1>5
    <3>2. Len(Subscription'[p]) <= 1
      BY <2>2
    <3> QED BY <2>2, <2>3, <3>1, <3>2 DEF Stored
  <2>4. CASE q # p
    BY <2>2, <2>4, <1>4, <1>5 DEF Stored
  <2> QED BY <2>3, <2>4
<1> QED BY <1>2, <1>3, <1>6, <1>7

LEMMA StoredRemove ==
    ASSUME TypeOK, StoredInv, NEW p \in Parameters, RemoveNotification(p)
    PROVE  StoredInv'
<1>1. SUFFICES ASSUME faults' = 0, NEW q \in Parameters PROVE Stored(q)'
  BY DEF StoredInv
<1>2. PICK call :
        /\ Fails(call)
        /\ Subscription' = IF call = "write" THEN Subscription
                           ELSE [Subscription EXCEPT ![p] = <<>>]
  BY ZenonT(30) DEF RemoveNotification
<1>3. faults = 0 /\ call = "none"
  BY <1>1, <1>2, FailsFacts DEF TypeOK
<1>4. /\ Subscription \in [Parameters -> Seq(Instances)] /\ mode \in [Parameters -> Modes]
      /\ mode' = [mode EXCEPT ![p] = "Off"] /\ Subscription' = [Subscription EXCEPT ![p] = <<>>]
  BY <1>2, <1>3 DEF RemoveNotification, TypeOK
<1>5. Stored(q)
  BY <1>3 DEF StoredInv
<1>6. CASE q = p
  <2>1. mode'[q] = "Off" /\ Subscription'[q] = <<>> /\ Len(<<>>) <= 1
    BY <1>4, <1>6
  <2> QED BY <2>1 DEF Stored
<1>7. CASE q # p
  BY <1>4, <1>5, <1>7 DEF Stored
<1> QED BY <1>6, <1>7

LEMMA StoredHandle == TypeOK /\ StoredInv /\ HandleParameter => StoredInv'
<1> SUFFICES ASSUME TypeOK, StoredInv, HandleParameter PROVE StoredInv'
  OBVIOUS
<1>1. mode' = mode /\ (faults' = 0 => faults = 0)
  <2>1. mode' = mode /\ \E call : Fails(call)
    BY HandleCases DEF HandleParameter
  <2> QED BY <2>1, FailsFacts DEF TypeOK
<1>2. CASE Abandon
  BY <1>1, <1>2, StoredFrame DEF Abandon
<1>3. ASSUME NEW p \in Parameters, NEW id \in Parameters, NEW call,
             p = Head(handling.todo), Report(id, p, call)
      PROVE  StoredInv'
  <2>1. PICK o \in Objects : handling \in Handlings(o)
    BY HandleCases
  <2>2. handling.to[p] \in Values
    BY <2>1, <1>3, HandlingFacts
  <2>3. /\ Subscription' \in [Parameters -> Seq(Instances)]
        /\ \A q \in Parameters : Len(Subscription'[q]) = Len(Subscription[q])
        /\ \A q \in Parameters : \A i \in DOMAIN Subscription[q] :
             Subscription'[q][i].Type = Subscription[q][i].Type
    BY <1>3, <2>2, ReportFacts
  <2>4. SUFFICES ASSUME faults' = 0, NEW q \in Parameters PROVE Stored(q)'
    BY DEF StoredInv
  <2>5. Stored(q)
    BY <1>1, <2>4 DEF StoredInv
  <2>6. PICK s \in Seq(Instances), r \in Seq(Instances) : s = Subscription[q] /\ r = Subscription'[q]
    BY <2>3 DEF TypeOK
  <2>7. Len(r) = Len(s) /\ \A i \in DOMAIN s : r[i].Type = s[i].Type
    BY <2>3, <2>6
  <2>8. s = <<>> => r = <<>>
    BY <2>7
  <2>9. Len(s) = 1 => 1 \in DOMAIN s
    OBVIOUS
  <2> QED BY <1>1, <2>5, <2>6, <2>7, <2>8, <2>9 DEF Stored
<1> QED BY <1>2, <1>3, HandleCases

LEMMA StoredStep == TypeOK /\ StoredInv /\ [Next]_vars => StoredInv'
<1> SUFFICES ASSUME TypeOK, StoredInv, [Next]_vars PROVE StoredInv'
  OBVIOUS
<1>1. ASSUME NEW p \in Parameters, RemoveNotification(p) PROVE StoredInv'
  BY <1>1, StoredRemove
<1>2. ASSUME NEW p \in Parameters, NEW m \in Modes, AddNotification(p, m) PROVE StoredInv'
  BY <1>2, StoredAdd
<1>3. CASE Restart
  <2>1. faults' = faults + 1 /\ faults \in Nat
    BY <1>3 DEF Restart, TypeOK
  <2>2. faults' # 0
    BY <2>1
  <2> QED BY <2>2 DEF StoredInv
<1>4. CASE SetValues
  <2>1. UNCHANGED <<Subscription, mode>> /\ \E call : Fails(call)
    BY <1>4, SetValuesFacts DEF SetValues
  <2>2. faults' = 0 => faults = 0
    BY <2>1, FailsFacts DEF TypeOK
  <2> QED BY <2>1, <2>2, StoredFrame
<1>5. ASSUME NEW o \in Objects, DeviceChanges(o) \/ TakeNotification(o) PROVE StoredInv'
  <2>1. UNCHANGED <<Subscription, mode, faults>>
    BY <1>5 DEF DeviceChanges, TakeNotification, engine, counters
  <2> QED BY <2>1, StoredFrame
<1>6. ASSUME NEW list \in Lists, SetParameterValues(list) PROVE StoredInv'
  <2>1. UNCHANGED <<Subscription, mode, faults>>
    BY <1>6 DEF SetParameterValues, engine
  <2> QED BY <2>1, StoredFrame
<1>7. CASE Answer \/ UNCHANGED vars
  <2>1. UNCHANGED <<Subscription, mode, faults>>
    BY <1>7 DEF Answer, engine, counters, vars
  <2> QED BY <2>1, StoredFrame
<1> QED BY <1>1, <1>2, <1>3, <1>4, <1>5, <1>6, <1>7, StoredHandle DEF Next

\* As long as no bus call failed and cwmpd did not end, a parameter whose
\* notification is on has one instance of ManagementServer.Subscription with
\* its type, and one whose notification is off has none
\* (DM_ENG_Device_ACSConnectionAddSubscription and -RemoveSubscription).
THEOREM InstancesFollowModes == Spec => []SubscriptionsStored
<1>1. Spec => [](TypeOK /\ StoredInv)
  <2>1. Init => TypeOK /\ StoredInv
    BY TypeInit, StoredInit
  <2>2. (TypeOK /\ StoredInv) /\ [Next]_vars => (TypeOK /\ StoredInv)'
    BY TypeStep, StoredStep
  <2> QED BY <2>1, <2>2, PTL DEF Spec
<1>2. StoredInv => SubscriptionsStored
  BY DEF StoredInv, Stored, SubscriptionsStored
<1> QED BY <1>1, <1>2, PTL

-----------------------------------------------------------------------------
(***************************************************************************)
(* What the ACS knows.  AcsInformed speaks of the moments when nothing     *)
(* waits; the invariant says what holds in between: a value the ACS does   *)
(* not know is in a notification of the device that waits or is being      *)
(* handled, and its parameter has not been visited yet, or was set by the  *)
(* SetParameterValues being served.  A value that was set is still there   *)
(* when the answer is given, or the device's change of it waits.           *)
(***************************************************************************)

Waiting(p) ==
    \E i \in DOMAIN queue[Object[p]] :
      queue[Object[p]][i].by = "device" /\ p \in DOMAIN queue[Object[p]][i].to

Visiting(p) == handling # NULL /\ handling.by = "device" /\ p \in Range(handling.todo)

BeingSet(p) == spv # NULL /\ p \in spv.done

Unknown(p) == Subscribed(p) /\ p \notin hidden \cup misled /\ known[p] # dm[p]

ChangesAreComing ==
    \A p \in Parameters : Unknown(p) => Waiting(p) \/ Visiting(p) \/ BeingSet(p)

Settled(p, j) ==
    /\ spv.list[j].p = p /\ j < spv.i
    /\ Subscribed(p) => dm[p] = spv.list[j].v \/ Waiting(p)

InService ==
    spv # NULL =>
      /\ handling = NULL
      /\ \A i, j \in DOMAIN spv.list : spv.list[i].p = spv.list[j].p => i = j
      /\ \A j \in DOMAIN spv.list : j < spv.i => spv.list[j].p \in spv.done \cup spv.failed
      /\ \A p \in spv.done : \E j \in DOMAIN spv.list : Settled(p, j)

LEMMA ComingInit == Init => ChangesAreComing /\ InService
BY DEF Init, ChangesAreComing, Unknown, InService

LEMMA ComingFrame ==
    ASSUME ChangesAreComing,
           UNCHANGED <<dm, queue, acsSubsList, handling, known, hidden, misled>>,
           spv' = spv \/ spv = NULL
    PROVE  ChangesAreComing'
<1>1. \A p \in Parameters : Unknown(p)' <=> Unknown(p)
  BY DEF Unknown, Subscribed, Infos
<1>2. \A p \in Parameters : (Waiting(p)' <=> Waiting(p)) /\ (Visiting(p)' <=> Visiting(p))
  BY DEF Waiting, Visiting
<1>3. \A p \in Parameters : BeingSet(p) => BeingSet(p)'
  BY DEF BeingSet
<1> QED BY <1>1, <1>2, <1>3 DEF ChangesAreComing

LEMMA ComingAdd ==
    ASSUME TypeOK, ChangesAreComing, NEW p \in Parameters, NEW m \in Modes, AddNotification(p, m)
    PROVE  ChangesAreComing'
<1>1. UNCHANGED <<dm, queue, handling, spv>>
  BY DEF AddNotification
<1>2. \/ UNCHANGED <<acsSubsList, known, hidden, misled>>
      \/ /\ UNCHANGED acsSubsList \/ Common_AddSubscription(p)
         /\ IF Subscribed(p) THEN UNCHANGED <<known, hidden, misled>>
            ELSE /\ known' = [known EXCEPT ![p] = dm[p]]
                 /\ hidden' = hidden \ {p} /\ misled' = misled \ {p}
  BY ZenonT(30) DEF AddNotification, told
<1>3. \A q \in Parameters : /\ Waiting(q)' <=> Waiting(q)
                            /\ Visiting(q)' <=> Visiting(q)
                            /\ BeingSet(q)' <=> BeingSet(q)
  BY <1>1 DEF Waiting, Visiting, BeingSet
<1>4. CASE UNCHANGED <<acsSubsList, known, hidden, misled>>
  BY <1>1, <1>4, ComingFrame
<1>5. ASSUME UNCHANGED acsSubsList \/ Common_AddSubscription(p),
             IF Subscribed(p) THEN UNCHANGED <<known, hidden, misled>>
             ELSE /\ known' = [known EXCEPT ![p] = dm[p]]
                  /\ hidden' = hidden \ {p} /\ misled' = misled \ {p}
      PROVE  ChangesAreComing'
  <2>1. \A q \in Parameters : Subscribed(q)' => Subscribed(q) \/ q = p
    <3>1. CASE UNCHANGED acsSubsList
      BY <3>1 DEF Subscribed, Infos
    <3>2. CASE Common_AddSubscription(p)
      BY <3>2, AddSubscriptionFacts
    <3> QED BY <3>1, <3>2, <1>5
  <2>2. ASSUME NEW q \in Parameters, Unknown(q)' PROVE Unknown(q)
    <3>1. Subscribed(q)' /\ q \notin hidden' \cup misled' /\ known'[q] # dm[q]
      BY <2>2, <1>1 DEF Unknown
    <3>2. known \in [Parameters -> Values]
      BY DEF TypeOK
    <3>3. CASE Subscribed(p)
      BY <3>1, <3>3, <2>1, <1>5 DEF Unknown
    <3>4. CASE ~Subscribed(p)
      <4>1. q # p
        BY <3>1, <3>2, <3>4, <1>5
      <4> QED BY <4>1, <3>1, <3>2, <3>4, <2>1, <1>5 DEF Unknown
    <3> QED BY <3>3, <3>4
  <2> QED BY <2>2, <1>3 DEF ChangesAreComing
<1> QED BY <1>2, <1>4, <1>5

LEMMA ComingRemove ==
    ASSUME TypeOK, ChangesAreComing, NEW p \in Parameters, RemoveNotification(p)
    PROVE  ChangesAreComing'
<1>1. UNCHANGED <<dm, handling, spv, known, hidden, misled>>
  BY DEF RemoveNotification, told
<1>2. \/ \E call : Subscribed(p) /\ Common_DeleteSubscription(p, call)
      \/ UNCHANGED <<acsSubsList, queue>>
  BY ZenonT(30) DEF RemoveNotification
<1>3. CASE UNCHANGED <<acsSubsList, queue>>
  BY <1>1, <1>3, ComingFrame
<1>4. ASSUME NEW call, Subscribed(p), Common_DeleteSubscription(p, call)
      PROVE  ChangesAreComing'
  <2>1. SUFFICES ASSUME NEW q \in Parameters, Unknown(q)'
                 PROVE  Waiting(q)' \/ Visiting(q)' \/ BeingSet(q)'
    BY DEF ChangesAreComing
  <2>2. /\ \A x \in Parameters : Subscribed(x)' => Subscribed(x)
        /\ \/ queue' = queue
           \/ /\ queue' = [queue EXCEPT ![Object[p]] = <<>>]
              /\ \A x \in Parameters : Object[x] = Object[p] => ~ Subscribed(x)'
    BY <1>4, DeleteSubscriptionFacts
  <2>3. Subscribed(q)' /\ Unknown(q)
    BY <1>1, <2>1, <2>2 DEF Unknown
  <2>4. Object[q] \in Objects /\ DOMAIN queue = Objects
    BY ObjectOfParameter DEF TypeOK
  <2>5. queue'[Object[q]] = queue[Object[q]]
    BY <2>2, <2>3, <2>4
  <2>6. Waiting(q) \/ Visiting(q) \/ BeingSet(q)
    BY <2>3 DEF ChangesAreComing
  <2> QED BY <1>1, <2>5, <2>6 DEF Waiting, Visiting, BeingSet
<1> QED BY <1>2, <1>3, <1>4

\* A notification that waits goes on waiting when a value changes.
LEMMA WaitingStays ==
    ASSUME TypeOK, NEW o \in Objects, NEW new \in [Parameters -> Values],
           NEW by \in {"device", "acs"}, Changed(o, new, by),
           \A p \in Parameters : Object[p] # o => new[p] = dm[p],
           NEW q \in Parameters, Waiting(q)
    PROVE  Waiting(q)'
<1>1. PICK i \in DOMAIN queue[Object[q]] :
        queue[Object[q]][i].by = "device" /\ q \in DOMAIN queue[Object[q]][i].to
  BY DEF Waiting
<1>2. Object[q] \in Objects
  BY ObjectOfParameter
<1>3. i \in DOMAIN queue'[Object[q]] /\ queue'[Object[q]][i] = queue[Object[q]][i]
  BY <1>1, <1>2, ChangedFacts
<1> QED BY <1>1, <1>3 DEF Waiting

\* A change by the device of a parameter that is subscribed waits.
LEMMA WaitingComes ==
    ASSUME TypeOK, BusMatchesList, NEW o \in Objects, NEW new \in [Parameters -> Values],
           Changed(o, new, "device"),
           \A p \in Parameters : Object[p] # o => new[p] = dm[p],
           NEW q \in Parameters, Subscribed(q), new[q] # dm[q]
    PROVE  Waiting(q)'
<1>1. Object[q] = o
  OBVIOUS
<1>2. acsSubsList[o] # NULL
  BY <1>1 DEF Subscribed, Infos, Range
<1>3. o \in bus
  BY <1>2 DEF BusMatchesList
<1>4. \E i \in DOMAIN queue'[o] : queue'[o][i].by = "device" /\ q \in DOMAIN queue'[o][i].to
  BY <1>3, ChangedFacts
<1> QED BY <1>1, <1>4 DEF Waiting

LEMMA ComingChanges ==
    ASSUME TypeOK, BusMatchesList, ChangesAreComing, NEW o \in Objects, DeviceChanges(o)
    PROVE  ChangesAreComing'
<1>1. UNCHANGED <<acsSubsList, handling, spv, known, hidden, misled>>
  BY DEF DeviceChanges, told
<1>2. PICK new \in [Parameters -> Values] :
        /\ \A p \in Parameters : Object[p] # o => new[p] = dm[p]
        /\ Changed(o, new, "device")
  BY DEF DeviceChanges
<1>3. SUFFICES ASSUME NEW q \in Parameters, Unknown(q)'
               PROVE  Waiting(q)' \/ Visiting(q)' \/ BeingSet(q)'
  BY DEF ChangesAreComing
<1>4. dm' = new
  BY <1>2, ChangedFacts
<1>5. Subscribed(q)' <=> Subscribed(q)
  BY <1>1 DEF Subscribed, Infos
<1>6. CASE new[q] = dm[q]
  <2>1. Unknown(q)
    BY <1>1, <1>3, <1>4, <1>5, <1>6 DEF Unknown
  <2>2. Waiting(q) \/ Visiting(q) \/ BeingSet(q)
    BY <2>1 DEF ChangesAreComing
  <2>3. Waiting(q) => Waiting(q)'
    BY <1>2, WaitingStays
  <2> QED BY <1>1, <2>2, <2>3 DEF Visiting, BeingSet
<1>7. CASE new[q] # dm[q]
  <2>1. Subscribed(q)
    BY <1>3, <1>5 DEF Unknown
  <2> QED BY <1>2, <1>7, <2>1, WaitingComes
<1> QED BY <1>6, <1>7

LEMMA ComingTake ==
    ASSUME TypeOK, ChangesAreComing, NEW o \in Objects, TakeNotification(o)
    PROVE  ChangesAreComing'
<1>1. UNCHANGED <<dm, acsSubsList, known, hidden, misled>> /\ handling = NULL /\ spv = NULL
  BY DEF TakeNotification, Ready, told
<1>2. SUFFICES ASSUME NEW q \in Parameters, Unknown(q)'
               PROVE  Waiting(q)' \/ Visiting(q)' \/ BeingSet(q)'
  BY DEF ChangesAreComing
<1>3. Unknown(q)
  BY <1>1, <1>2 DEF Unknown, Subscribed, Infos
<1>4. Waiting(q)
  BY <1>1, <1>3 DEF ChangesAreComing, Visiting, BeingSet
<1>5. /\ \A x \in Objects : x # o => queue'[x] = queue[x]
      /\ queue[o] # <<>> /\ queue[o] \in Seq(Notifications(o))
      /\ queue'[o] = Tail(queue[o])
      /\ handling' \in Handlings(o)
      /\ handling'.by = Head(queue[o]).by
      /\ Range(handling'.todo) = DOMAIN Head(queue[o]).to
  BY TakeFacts
<1>6. handling' # NULL
  BY <1>5, ParameterAssumption
<1>7. CASE Object[q] # o
  <2>1. queue'[Object[q]] = queue[Object[q]]
    BY <1>5, <1>7, ObjectOfParameter
  <2> QED BY <1>4, <2>1 DEF Waiting
<1>8. CASE Object[q] = o
  <2>1. PICK i \in DOMAIN queue[o] : queue[o][i].by = "device" /\ q \in DOMAIN queue[o][i].to
    BY <1>4, <1>8 DEF Waiting
  <2>2. PICK s \in Seq(Notifications(o)) : s = queue[o]
    BY <1>5
  <2>3. CASE i = 1
    <3>1. queue[o][i] = Head(queue[o])
      BY <2>2, <2>3
    <3> QED BY <1>5, <1>6, <2>1, <3>1 DEF Visiting
  <2>4. CASE i # 1
    <3>1. i \in DOMAIN s /\ s # <<>>
      BY <1>5, <2>1, <2>2
    <3>2. i - 1 \in DOMAIN Tail(s) /\ Tail(s)[i - 1] = s[i]
      BY <3>1, <2>4
    <3>3. /\ i - 1 \in DOMAIN queue'[o]
          /\ queue'[o][i - 1].by = "device" /\ q \in DOMAIN queue'[o][i - 1].to
      BY <1>5, <2>1, <2>2, <3>2, Zenon
    <3> QED BY <1>8, <3>3, Zenon DEF Waiting
  <2> QED BY <2>3, <2>4
<1> QED BY <1>7, <1>8

LEMMA ComingHandle ==
    ASSUME TypeOK, ChangesAreComing, HandleParameter
    PROVE  ChangesAreComing'
<1>1. UNCHANGED <<dm, queue, acsSubsList, spv>>
  BY DEF HandleParameter
<1>2. PICK o \in Objects : handling \in Handlings(o)
  BY HandleCases
<1>3. SUFFICES ASSUME NEW q \in Parameters, Unknown(q)'
               PROVE  Waiting(q)' \/ Visiting(q)' \/ BeingSet(q)'
  BY DEF ChangesAreComing
<1>4. Subscribed(q)' <=> Subscribed(q)
  BY <1>1 DEF Subscribed, Infos
<1>5. Subscribed(q) /\ q \notin hidden' /\ q \notin misled' /\ known'[q] # dm[q]
  BY <1>1, <1>3, <1>4 DEF Unknown
<1>6. (Waiting(q)' <=> Waiting(q)) /\ (BeingSet(q)' <=> BeingSet(q))
  BY <1>1 DEF Waiting, BeingSet
<1>7. CASE Abandon
  <2>1. /\ hidden' = hidden \cup {p \in Range(handling.todo) : Subscribed(p)}
        /\ known' = known /\ misled' = misled
    BY <1>7 DEF Abandon
  <2>2. Unknown(q) /\ q \notin Range(handling.todo)
    BY <1>5, <2>1 DEF Unknown
  <2> QED BY <2>2, <1>6 DEF ChangesAreComing, Visiting
<1>8. ASSUME NEW p \in Parameters, NEW id \in Parameters, NEW call,
             p = Head(handling.todo), id = IF Subscribed(p) THEN p ELSE handling.id,
             Report(id, p, call), GoOn(id)
      PROVE  Waiting(q)' \/ Visiting(q)' \/ BeingSet(q)'
  <2>1. known \in [Parameters -> Values]
    BY DEF TypeOK
  <2>2. \/ /\ hidden' = IF handling.by = "device" /\ id = p THEN hidden \cup {p} ELSE hidden
           /\ known' = known /\ misled' = misled
        \/ /\ known' = [known EXCEPT ![id] = dm[id]]
           /\ hidden' = hidden \ {id} /\ misled' = misled \ {id}
    BY <1>8 DEF Report
  <2>3. Unknown(q) /\ (handling.by = "device" => q # p)
    <3>1. CASE /\ hidden' = IF handling.by = "device" /\ id = p THEN hidden \cup {p} ELSE hidden
               /\ known' = known /\ misled' = misled
      BY <3>1, <1>5, <1>8 DEF Unknown
    <3>2. CASE /\ known' = [known EXCEPT ![id] = dm[id]]
               /\ hidden' = hidden \ {id} /\ misled' = misled \ {id}
      <4>1. q # id
        BY <3>2, <1>5, <2>1
      <4>2. q # p
        BY <4>1, <1>5, <1>8
      <4> QED BY <4>1, <4>2, <3>2, <1>5, <2>1 DEF Unknown
    <3> QED BY <2>2, <3>1, <3>2
  <2>4. Waiting(q) \/ Visiting(q) \/ BeingSet(q)
    BY <2>3 DEF ChangesAreComing
  <2>5. ASSUME Visiting(q) PROVE Visiting(q)'
    <3>1. handling.by = "device" /\ q \in Range(handling.todo) /\ q # Head(handling.todo)
      BY <2>3, <2>5, <1>8 DEF Visiting
    <3>2. /\ handling' \in Handlings(o) /\ handling'.by = handling.by
          /\ q \in Range(handling'.todo)
      BY <1>2, <1>8, <3>1, GoOnFacts
    <3>3. handling' # NULL
      BY <3>2, ParameterAssumption
    <3> QED BY <3>1, <3>2, <3>3 DEF Visiting
  <2> QED BY <1>6, <2>4, <2>5
<1> QED BY <1>7, <1>8, HandleCases

\* What a call for a group of entries does to the values and to what is done.
LEMMA ServedFacts ==
    ASSUME TypeOK, InService, SetValues
    PROVE  \E last \in Nat, group \in SUBSET Settings :
             /\ spv.list \in Seq(Settings) /\ spv.i \in Nat \ {0}
             /\ spv.i <= last /\ last <= Len(spv.list)
             /\ group = {spv.list[j] : j \in spv.i .. last}
             /\ spv'.list = spv.list /\ spv'.i = last + 1
             /\ spv.done \subseteq spv'.done /\ spv.failed \subseteq spv'.failed
             /\ {s.p : s \in group} \subseteq spv'.done \cup spv'.failed
             /\ spv'.done \subseteq spv.done \cup {s.p : s \in group}
             /\ \A q \in Parameters : Waiting(q) => Waiting(q)'
             /\ \A q \in Parameters : q \notin {s.p : s \in group} => dm'[q] = dm[q]
             /\ \A q \in Parameters : dm'[q] # dm[q] => q \in spv'.done
             /\ \A q \in spv'.done \ spv.done : dm'[q] = (CHOOSE s \in group : s.p = q).v
<1>1. spv # NULL /\ spv \in Rpcs
  BY SetValuesFacts
<1>2. PICK o \in Objects, last \in Nat, group \in SUBSET Settings,
           done \in SUBSET Parameters, failed \in SUBSET Parameters :
        /\ Served(o, last, group, done, failed)
        /\ spv'.list = spv.list /\ spv'.i = last + 1
        /\ spv'.done = done /\ spv'.failed = failed
  BY SetValuesFacts, Zenon
<1>3. spv.list \in Seq(Settings) /\ spv.i \in Nat \ {0} /\ spv.done \subseteq Parameters
  BY <1>1 DEF Rpcs
<1>4. /\ spv.i <= last /\ last <= Len(spv.list)
      /\ group = {spv.list[j] : j \in spv.i .. last}
      /\ \A s \in group : Object[s.p] = o
  BY <1>2, Zenon DEF Served
<1>pick. PICK P : P = {s.p : s \in group}
  OBVIOUS
<1>5. P = {s.p : s \in group} /\ \A q : q \in P <=> \E s \in group : s.p = q
  BY <1>pick
<1>6. \/ UNCHANGED <<dm, queue>> /\ done = spv.done /\ failed = spv.failed \cup P
      \/ /\ Changed(o, With(dm, group), "acs") /\ done = spv.done \cup P
         /\ failed = spv.failed \/ failed = spv.failed \cup P
  BY <1>2, <1>5, Zenon DEF Served
<1>7. /\ spv.done \subseteq done /\ spv.failed \subseteq failed
      /\ P \subseteq done \cup failed /\ done \subseteq spv.done \cup P
  BY <1>6
<1>8. /\ \A q \in Parameters : Waiting(q) => Waiting(q)'
      /\ \A q \in Parameters : q \notin P => dm'[q] = dm[q]
      /\ \A q \in Parameters : dm'[q] # dm[q] => q \in done
      /\ \A q \in done \ spv.done : dm'[q] = (CHOOSE s \in group : s.p = q).v
  <2>1. CASE UNCHANGED <<dm, queue>> /\ done = spv.done
    <3>1. \A q \in Parameters : Waiting(q) => Waiting(q)'
      BY <2>1 DEF Waiting
    <3> QED BY <2>1, <3>1
  <2>2. CASE Changed(o, With(dm, group), "acs") /\ done = spv.done \cup P
    <3>1. PICK new \in [Parameters -> Values] :
            /\ dm' = new /\ Changed(o, new, "acs")
            /\ \A p \in Parameters : Object[p] # o => new[p] = dm[p]
            /\ \A p \in Parameters : ~ (\E s \in group : s.p = p) => new[p] = dm[p]
            /\ \A p \in Parameters : (\E s \in group : s.p = p) =>
                 new[p] = (CHOOSE s \in group : s.p = p).v
      BY <1>4, <2>2, SetFacts
    <3>2. \A q \in Parameters : Waiting(q) => Waiting(q)'
      BY <3>1, WaitingStays
    <3>3. \A q \in Parameters : q \notin P => dm'[q] = dm[q]
      BY <1>5, <3>1
    <3>4. \A q \in done \ spv.done : dm'[q] = (CHOOSE s \in group : s.p = q).v
      <4>1. SUFFICES ASSUME NEW q \in done, q \notin spv.done
                     PROVE  dm'[q] = (CHOOSE s \in group : s.p = q).v
        OBVIOUS
      <4>2. q \in Parameters /\ q \in P
        BY <4>1, <2>2
      <4> QED BY <4>2, <1>5, <3>1, Zenon
    <3> QED BY <2>2, <3>2, <3>3, <3>4
  <2> QED BY <1>6, <2>1, <2>2
<1>9. /\ {s.p : s \in group} = P /\ spv'.done = done /\ spv'.failed = failed
  BY <1>2, <1>5
<1>10. /\ last \in Nat /\ group \in SUBSET Settings
       /\ spv'.list = spv.list /\ spv'.i = last + 1
  BY <1>2, Zenon
<1>11. /\ spv.done \subseteq spv'.done /\ spv.failed \subseteq spv'.failed
       /\ {s.p : s \in group} \subseteq spv'.done \cup spv'.failed
       /\ spv'.done \subseteq spv.done \cup {s.p : s \in group}
       /\ \A q \in Parameters : q \notin {s.p : s \in group} => dm'[q] = dm[q]
       /\ \A q \in Parameters : dm'[q] # dm[q] => q \in spv'.done
       /\ \A q \in spv'.done \ spv.done : dm'[q] = (CHOOSE s \in group : s.p = q).v
  BY <1>7, <1>8, <1>9, Zenon
<1> QED BY <1>3, <1>4, <1>8, <1>10, <1>11, Zenon

LEMMA ComingSetValues ==
    ASSUME TypeOK, InService, ChangesAreComing, SetValues
    PROVE  ChangesAreComing'
<1>1. UNCHANGED <<acsSubsList, handling, known, hidden, misled>>
  BY DEF SetValues, told
<1>2. /\ spv.done \subseteq spv'.done
      /\ \A q \in Parameters : Waiting(q) => Waiting(q)'
      /\ \A q \in Parameters : dm'[q] # dm[q] => q \in spv'.done
  BY ServedFacts, Zenon
<1>3. spv # NULL /\ spv' # NULL
  BY SetValuesFacts, ParameterAssumption
<1>4. SUFFICES ASSUME NEW q \in Parameters, Unknown(q)'
               PROVE  Waiting(q)' \/ Visiting(q)' \/ BeingSet(q)'
  BY DEF ChangesAreComing
<1>5. CASE dm'[q] # dm[q]
  BY <1>2, <1>3, <1>5 DEF BeingSet
<1>6. CASE dm'[q] = dm[q]
  <2>1. Unknown(q)
    BY <1>1, <1>4, <1>6 DEF Unknown, Subscribed, Infos
  <2>2. Waiting(q) \/ Visiting(q) \/ BeingSet(q)
    BY <2>1 DEF ChangesAreComing
  <2>3. Visiting(q) => Visiting(q)'
    BY <1>1 DEF Visiting
  <2>4. BeingSet(q) => BeingSet(q)'
    BY <1>2, <1>3 DEF BeingSet
  <2> QED BY <1>2, <2>2, <2>3, <2>4
<1> QED BY <1>5, <1>6

\* When the answer is given, every value it tells the ACS of is there, on its
\* way, or known to be told wrongly.
LEMMA ComingAnswer ==
    ASSUME TypeOK, InService, ChangesAreComing, Answer
    PROVE  ChangesAreComing'
<1>1. UNCHANGED <<dm, queue, acsSubsList, handling, hidden>>
  BY DEF Answer
<1>2. /\ spv # NULL /\ spv \in Rpcs /\ spv.i > Len(spv.list)
      /\ \/ misled' = misled \cup spv.done /\ known' = known
         \/ /\ known' = With(known, Range(spv.list))
            /\ misled' = (misled \ spv.done) \cup (spv.failed \ spv.done)
  BY AnswerFacts
<1>3. PICK list \in Seq(Settings) : list = spv.list
  BY <1>2 DEF Rpcs
<1>4. /\ \A i, j \in DOMAIN list : list[i].p = list[j].p => i = j
      /\ \A j \in DOMAIN list : j < spv.i => list[j].p \in spv.done \cup spv.failed
      /\ \A p \in spv.done : \E j \in DOMAIN list : Settled(p, j)
  BY <1>2, <1>3 DEF InService
<1>5. SUFFICES ASSUME NEW q \in Parameters, Unknown(q)'
               PROVE  Waiting(q)' \/ Visiting(q)' \/ BeingSet(q)'
  BY DEF ChangesAreComing
<1>6. Subscribed(q) /\ q \notin hidden /\ q \notin misled' /\ known'[q] # dm[q]
  BY <1>1, <1>5 DEF Unknown, Subscribed, Infos
<1>7. (Waiting(q)' <=> Waiting(q)) /\ (Visiting(q)' <=> Visiting(q))
  BY <1>1 DEF Waiting, Visiting
<1>8. ASSUME known'[q] = known[q], q \notin spv.done, q \notin misled
      PROVE  Waiting(q) \/ Visiting(q)
  BY <1>6, <1>8 DEF ChangesAreComing, Unknown, BeingSet
<1>9. CASE misled' = misled \cup spv.done /\ known' = known
  BY <1>6, <1>7, <1>8, <1>9
<1>10. CASE /\ known' = With(known, Range(spv.list))
            /\ misled' = (misled \ spv.done) \cup (spv.failed \ spv.done)
  <2>1. DOMAIN known = Parameters
    BY DEF TypeOK
  <2>2. /\ (\E s \in Range(list) : s.p = q) =>
             known'[q] = (CHOOSE s \in Range(list) : s.p = q).v
        /\ ~ (\E s \in Range(list) : s.p = q) => known'[q] = known[q]
    BY <1>3, <1>10, <2>1, WithValue
  <2>3. CASE q \in spv.done
    <3>1. PICK j \in DOMAIN list : Settled(q, j)
      BY <1>4, <2>3
    <3>2. list[j].p = q /\ (dm[q] = list[j].v \/ Waiting(q))
      BY <1>3, <1>6, <3>1 DEF Settled
    <3>3. list[j] \in Range(list) /\ \A s \in Range(list) : s.p = q => s = list[j]
      BY <1>4, <3>2 DEF Range
    <3>4. (CHOOSE s \in Range(list) : s.p = q) = list[j]
      BY <3>2, <3>3
    <3>5. known'[q] = list[j].v
      BY <2>2, <3>2, <3>3, <3>4, Zenon
    <3> QED BY <1>6, <1>7, <3>2, <3>5
  <2>4. CASE q \notin spv.done
    <3>1. q \notin spv.failed /\ q \notin misled
      BY <1>6, <1>10, <2>4
    <3>2. \A j \in DOMAIN list : list[j].p # q
      <4>1. \A j \in DOMAIN list : j < spv.i
        <5>1. spv.i \in Nat
          BY <1>2 DEF Rpcs
        <5> QED BY <1>2, <1>3, <5>1
      <4> QED BY <4>1, <1>4, <2>4, <3>1
    <3>3. ~ (\E s \in Range(list) : s.p = q)
      BY <3>2 DEF Range
    <3> QED BY <1>7, <1>8, <2>2, <2>4, <3>1, <3>3
  <2> QED BY <2>3, <2>4
<1> QED BY <1>2, <1>9, <1>10

LEMMA InServiceSet ==
    ASSUME TypeOK, NEW list \in Lists, SetParameterValues(list)
    PROVE  InService'
<1>1. /\ handling = NULL /\ handling' = handling
      /\ \/ spv' = NULL
         \/ /\ Valid(list)
            /\ spv' = [list |-> list, i |-> 1, error |-> FALSE, done |-> {}, failed |-> {}]
  BY Zenon DEF SetParameterValues, Ready
<1>2. CASE spv' = NULL
  BY <1>2 DEF InService
<1>3. CASE /\ Valid(list)
           /\ spv' = [list |-> list, i |-> 1, error |-> FALSE, done |-> {}, failed |-> {}]
  <2>1. spv'.list = list /\ spv'.i = 1 /\ spv'.done = {}
    BY <1>3
  <2>2. \A i, j \in DOMAIN list : list[i].p = list[j].p => i = j
    BY <1>3 DEF Valid
  <2>3. \A j \in DOMAIN list : ~ (j < 1)
    <3>1. PICK n \in 1 .. MaxList : list \in [1 .. n -> Settings]
      BY Zenon DEF Lists
    <3>2. DOMAIN list = 1 .. n
      BY <3>1
    <3> QED BY <3>2
  <2> QED BY <1>1, <2>1, <2>2, <2>3 DEF InService
<1> QED BY <1>1, <1>2, <1>3

LEMMA InServiceChanges ==
    ASSUME TypeOK, BusMatchesList, InService, NEW o \in Objects, DeviceChanges(o)
    PROVE  InService'
<1>1. UNCHANGED <<acsSubsList, handling, spv>>
  BY DEF DeviceChanges
<1>2. PICK new \in [Parameters -> Values] :
        /\ \A p \in Parameters : Object[p] # o => new[p] = dm[p]
        /\ Changed(o, new, "device")
  BY DEF DeviceChanges
<1>3. dm' = new
  BY <1>2, ChangedFacts
<1>4. SUFFICES ASSUME spv # NULL, NEW p \in spv.done, NEW j \in DOMAIN spv.list, Settled(p, j)
               PROVE  Settled(p, j)'
  BY <1>1 DEF InService
<1>5. p \in Parameters
  BY <1>4 DEF TypeOK, Rpcs
<1>6. (Subscribed(p)' <=> Subscribed(p))
  BY <1>1 DEF Subscribed, Infos
<1>7. ASSUME Subscribed(p) PROVE dm'[p] = spv.list[j].v \/ Waiting(p)'
  <2>1. dm[p] = spv.list[j].v \/ Waiting(p)
    BY <1>4, <1>7 DEF Settled
  <2>2. Waiting(p) => Waiting(p)'
    BY <1>2, <1>5, WaitingStays
  <2>3. new[p] # dm[p] => Waiting(p)'
    BY <1>2, <1>5, <1>7, WaitingComes
  <2> QED BY <1>3, <2>1, <2>2, <2>3
<1> QED BY <1>1, <1>4, <1>6, <1>7 DEF Settled

LEMMA InServiceSetValues ==
    ASSUME TypeOK, InService, SetValues
    PROVE  InService'
<1>1. UNCHANGED <<acsSubsList, handling>>
  BY DEF SetValues
<1>2. PICK last \in Nat, group \in SUBSET Settings :
        /\ spv.list \in Seq(Settings) /\ spv.i \in Nat \ {0}
        /\ spv.i <= last /\ last <= Len(spv.list)
        /\ group = {spv.list[j] : j \in spv.i .. last}
        /\ spv'.list = spv.list /\ spv'.i = last + 1
        /\ spv.done \subseteq spv'.done /\ spv.failed \subseteq spv'.failed
        /\ {s.p : s \in group} \subseteq spv'.done \cup spv'.failed
        /\ spv'.done \subseteq spv.done \cup {s.p : s \in group}
        /\ \A q \in Parameters : Waiting(q) => Waiting(q)'
        /\ \A q \in Parameters : q \notin {s.p : s \in group} => dm'[q] = dm[q]
        /\ \A q \in spv'.done \ spv.done : dm'[q] = (CHOOSE s \in group : s.p = q).v
  BY ServedFacts, Zenon
<1>3. PICK list \in Seq(Settings) : list = spv.list
  BY <1>2, Zenon
<1>4. spv # NULL /\ spv \in Rpcs
  BY SetValuesFacts
<1>5. /\ handling = NULL
      /\ \A i, j \in DOMAIN list : list[i].p = list[j].p => i = j
      /\ \A j \in DOMAIN list : j < spv.i => list[j].p \in spv.done \cup spv.failed
      /\ \A p \in spv.done : \E j \in DOMAIN list : Settled(p, j)
  BY <1>3, <1>4 DEF InService
<1>6. /\ \A j \in DOMAIN list : j < last + 1 => j < spv.i \/ j \in spv.i .. last
      /\ \A j \in spv.i .. last : j \in DOMAIN list /\ ~ (j < spv.i)
      /\ \A j \in DOMAIN list : j < spv.i => j < last + 1
      /\ \A j \in spv.i .. last : j < last + 1
  BY <1>2, <1>3
<1>group. group = {list[j] : j \in spv.i .. last}
  <2>1. group = {spv.list[j] : j \in spv.i .. last}
    BY <1>2, Zenon
  <2> QED BY <2>1, <1>3
<1>pick. PICK P : P = {s.p : s \in group}
  OBVIOUS
<1>7. /\ P = {s.p : s \in group}
      /\ \A q : q \in P <=> \E j \in spv.i .. last : list[j].p = q
  BY <1>pick, <1>group
<1>set. \A q \in spv'.done \ spv.done : dm'[q] = (CHOOSE s \in group : s.p = q).v
  BY <1>2, Zenon
<1>8. /\ P \subseteq spv'.done \cup spv'.failed
      /\ spv'.done \subseteq spv.done \cup P
      /\ \A q \in Parameters : q \notin P => dm'[q] = dm[q]
  BY <1>2, <1>7, Zenon
<1>9. \A j \in DOMAIN list : j < last + 1 => list[j].p \in spv'.done \cup spv'.failed
  <2>1. SUFFICES ASSUME NEW j \in DOMAIN list, j < last + 1
                 PROVE  list[j].p \in spv'.done \cup spv'.failed
    OBVIOUS
  <2>2. CASE j < spv.i
    <3>1. list[j].p \in spv.done \cup spv.failed
      BY <1>5, <2>2
    <3> QED BY <3>1, <1>2
  <2>3. CASE j \in spv.i .. last
    BY <1>7, <1>8, <2>3
  <2> QED BY <1>6, <2>1, <2>2, <2>3
<1>10. ASSUME NEW p \in spv'.done PROVE \E j \in DOMAIN list : Settled(p, j)'
  <2>1. spv'.list = list /\ spv'.i = last + 1
    BY <1>2, <1>3, Zenon
  <2>2. Subscribed(p)' <=> Subscribed(p)
    BY <1>1 DEF Subscribed, Infos
  <2>3. CASE p \in spv.done
    <3>1. PICK j \in DOMAIN list : Settled(p, j)
      BY <1>5, <2>3
    <3>2. /\ list[j].p = p /\ j < spv.i
          /\ Subscribed(p) => dm[p] = list[j].v \/ Waiting(p)
      BY <1>3, <3>1 DEF Settled
    <3>3. p \in Parameters
      BY <1>4, <2>3 DEF Rpcs
    <3>4. p \notin P
      <4>1. SUFFICES ASSUME NEW i \in spv.i .. last, list[i].p = p PROVE FALSE
        BY <1>7
      <4>2. i \in DOMAIN list /\ ~ (i < spv.i)
        BY <1>6
      <4>3. i = j
        BY <1>5, <3>2, <4>1, <4>2
      <4> QED BY <3>2, <4>2, <4>3
    <3>5. dm'[p] = dm[p] /\ (Waiting(p) => Waiting(p)')
      BY <1>2, <1>8, <3>3, <3>4
    <3>6. j < last + 1
      BY <1>6, <3>2
    <3>7. Settled(p, j)'
      BY <2>1, <2>2, <3>2, <3>5, <3>6 DEF Settled
    <3> QED BY <3>7
  <2>4. CASE p \notin spv.done
    <3>1. PICK j \in spv.i .. last : list[j].p = p
      BY <1>7, <1>8, <2>4
    <3>2. j \in DOMAIN list /\ j < last + 1
      BY <1>6
    <3>3. list[j] \in group /\ \A s \in group : s.p = p => s = list[j]
      <4>2. \A i \in spv.i .. last : i \in DOMAIN list
        BY <1>6
      <4> QED BY <1>group, <4>2, <3>1, <3>2, <1>5
    <3>4. (CHOOSE s \in group : s.p = p) = list[j]
      BY <3>1, <3>3
    <3>5. dm'[p] = list[j].v
      <4>1. p \in spv'.done \ spv.done
        BY <1>10, <2>4
      <4>2. dm'[p] = (CHOOSE s \in group : s.p = p).v
        BY <1>set, <4>1, Zenon
      <4> QED BY <3>4, <4>2, Zenon
    <3>6. Settled(p, j)'
      BY <2>1, <3>1, <3>2, <3>5 DEF Settled
    <3> QED BY <3>2, <3>6
  <2> QED BY <2>3, <2>4
<1>11. spv'.list = list /\ spv'.i = last + 1 /\ handling' = NULL
  BY <1>1, <1>2, <1>3, <1>5, Zenon
<1> QED BY <1>5, <1>9, <1>10, <1>11 DEF InService

LEMMA InServiceStep ==
    TypeOK /\ BusMatchesList /\ InService /\ [Next]_vars => InService'
<1> SUFFICES ASSUME TypeOK, BusMatchesList, InService, [Next]_vars PROVE InService'
  OBVIOUS
<1>1. ASSUME NEW p \in Parameters, RemoveNotification(p) PROVE InService'
  BY <1>1 DEF RemoveNotification, Ready, InService
<1>2. ASSUME NEW p \in Parameters, NEW m \in Modes, AddNotification(p, m) PROVE InService'
  <2>1. spv' = NULL
    BY <1>2 DEF AddNotification, Ready
  <2> QED BY <2>1 DEF InService
<1>3. ASSUME NEW o \in Objects, TakeNotification(o) PROVE InService'
  <2>1. spv' = NULL
    BY <1>3 DEF TakeNotification, Ready
  <2> QED BY <2>1 DEF InService
<1>4. CASE HandleParameter
  <2>1. spv' = NULL
    BY <1>4 DEF HandleParameter, InService
  <2> QED BY <2>1 DEF InService
<1>5. CASE Answer \/ Restart
  <2>1. spv' = NULL
    BY <1>5 DEF Answer, Restart
  <2> QED BY <2>1 DEF InService
<1>6. CASE UNCHANGED vars
  <2>1. UNCHANGED <<dm, queue, acsSubsList, handling, spv>>
    BY <1>6 DEF vars
  <2> QED BY <2>1 DEF InService, Settled, Waiting, Subscribed, Infos
<1>7. ASSUME NEW o \in Objects, DeviceChanges(o) PROVE InService'
  BY <1>7, InServiceChanges
<1>8. ASSUME NEW list \in Lists, SetParameterValues(list) PROVE InService'
  BY <1>8, InServiceSet
<1> QED BY <1>1, <1>2, <1>3, <1>4, <1>5, <1>6, <1>7, <1>8, InServiceSetValues DEF Next

LEMMA ComingStep ==
    TypeOK /\ BusMatchesList /\ InService /\ ChangesAreComing /\ [Next]_vars =>
      ChangesAreComing'
<1> SUFFICES ASSUME TypeOK, BusMatchesList, InService, ChangesAreComing, [Next]_vars
             PROVE  ChangesAreComing'
  OBVIOUS
<1>1. ASSUME NEW p \in Parameters, RemoveNotification(p) PROVE ChangesAreComing'
  BY <1>1, ComingRemove
<1>2. ASSUME NEW p \in Parameters, NEW m \in Modes, AddNotification(p, m) PROVE ChangesAreComing'
  BY <1>2, ComingAdd
<1>3. ASSUME NEW o \in Objects, DeviceChanges(o) PROVE ChangesAreComing'
  BY <1>3, ComingChanges
<1>4. ASSUME NEW o \in Objects, TakeNotification(o) PROVE ChangesAreComing'
  BY <1>4, ComingTake
<1>5. CASE SetValues
  BY <1>5, ComingSetValues
<1>6. ASSUME NEW list \in Lists, SetParameterValues(list) PROVE ChangesAreComing'
  <2>1. UNCHANGED <<dm, queue, acsSubsList, handling, known, hidden, misled>> /\ spv = NULL
    BY <1>6 DEF SetParameterValues, Ready, told
  <2> QED BY <2>1, ComingFrame
<1>7. CASE UNCHANGED vars
  <2>1. UNCHANGED <<dm, queue, acsSubsList, handling, spv, known, hidden, misled>>
    BY <1>7 DEF vars, told
  <2> QED BY <2>1, ComingFrame
<1>8. CASE Restart
  <2>1. acsSubsList' = [o \in Objects |-> NULL]
    BY <1>8 DEF Restart
  <2>2. \A p \in Parameters : ~ Subscribed(p)'
    BY <2>1, ObjectOfParameter DEF Subscribed, Infos, Range
  <2> QED BY <2>2 DEF ChangesAreComing, Unknown
<1> QED BY <1>1, <1>2, <1>3, <1>4, <1>5, <1>6, <1>7, <1>8, ComingHandle, ComingAnswer DEF Next

\* Whatever notifications, SetParameterValues, changes by the device, failed
\* calls and restarts came before: once nothing waits, what the ACS was last
\* told of a parameter it wants to hear of is its value, except where the
\* handler withheld a change, the answer to a SetParameterValues was wrong, or
\* the bus refused the subscription
\* (DM_ENG_Device_ACSConnectionHandleNotification,
\* DM_ENG_Device_SetParameterValues).
THEOREM AcsLearnsChanges == Spec => []AcsInformed
<1> DEFINE Inv == TypeOK /\ BusMatchesList /\ InService /\ ChangesAreComing
<1>1. Init => Inv
  BY TypeInit, BusInit, ComingInit
<1>2. Inv /\ [Next]_vars => Inv'
  BY TypeStep, BusStep, InServiceStep, ComingStep
<1>3. Inv => AcsInformed
  <2>1. SUFFICES ASSUME Inv, handling = NULL, spv = NULL, \A o \in Objects : queue[o] = <<>>,
                        NEW p \in Parameters, mode[p] \in {"Active", "Forced"},
                        p \notin hidden \cup misled \cup refused
                 PROVE  known[p] = dm[p]
    BY DEF AcsInformed, Ready
  <2>2. Subscribed(p)
    BY <2>1 DEF BusMatchesList
  <2>3. ~ Visiting(p)
    BY <2>1 DEF Visiting
  <2>4. ~ Waiting(p)
    BY <2>1, ObjectOfParameter DEF Waiting
  <2> QED BY <2>1, <2>2, <2>3, <2>4 DEF ChangesAreComing, Unknown, BeingSet
<1> QED BY <1>1, <1>2, <1>3, PTL DEF Spec

-----------------------------------------------------------------------------
(***************************************************************************)
(* Manageable devices.                                                     *)
(***************************************************************************)

\* An event of gMap takes the devices that match from x to y.
Turn(x, e, y) ==
    \/ e.action = "start" /\ e.key \notin x /\ y = x \cup {e.key}
    \/ e.action = "stop" /\ e.key \in x /\ y = x \ {e.key}

\* The events of q, one after the other, take x to y.
Turns(q, x, y) ==
    \E w \in [0 .. Len(q) -> SUBSET Keys] :
        /\ w[0] = x /\ w[Len(q)] = y
        /\ \A i \in 1 .. Len(q) : Turn(w[i - 1], q[i], w[i])

\* Two hosts do not have one address.
OneHost == \A g, h \in Hosts : phys[g] \in Keys /\ phys[g] = phys[h] => g = h

\* Without the query the plugin knows of no device; with it, the events on
\* their way lead from the devices it knows of to those that match.
EventsLead ==
    IF stage = "on" THEN Turns(gevents, matched, active) ELSE gevents = <<>> /\ matched = {}

\* A host is in the instance of a device.
On(t, d, h) == t[d] # NONE /\ h \in t[d]

\* A device that is known and has no host waits in the cache.
Hostless ==
    \A k \in matched \ missed :
        (\A h \in Hosts : phys[h] # k) => k \in Range(md_requests)

\* ListedHostMatches, host by host.
Listing ==
    \A d \in Devices, h \in Hosts : On(table, d, h) =>
        /\ phys[h] \in Keys /\ Identity[phys[h]] = d
        /\ phys[h] \in matched \/ h \in stale

\* HostIsListedOrComing, host by host.
Coming ==
    \A k \in matched \ missed, h \in Hosts : phys[h] = k =>
        \/ On(table, Identity[k], h)
        \/ k \in Range(md_requests) /\ [host |-> h, to |-> k] \in Range(hevents)

\* What relates hosts, instances and cache.
HInv == OneHost /\ Hostless /\ Listing /\ CacheIsOfMatched /\ Coming /\ InstanceHasHost

\* The inductive invariant.
DInv == DevicesTypeOK /\ EventsLead /\ HInv

LEMMA TurnsAppend ==
    ASSUME NEW S, NEW q \in Seq(S), NEW x, NEW y, NEW z \in SUBSET Keys, NEW e \in S,
           Turns(q, x, y), Turn(y, e, z)
    PROVE  Turns(Append(q, e), x, z)
<1>1. PICK w \in [0 .. Len(q) -> SUBSET Keys] :
        /\ w[0] = x /\ w[Len(q)] = y
        /\ \A i \in 1 .. Len(q) : Turn(w[i - 1], q[i], w[i])
  BY DEF Turns
<1>2. PICK n \in Nat : n = Len(q)
  OBVIOUS
<1>3. PICK p : p = Append(q, e)
  OBVIOUS
<1>4. Len(p) = n + 1 /\ p[n + 1] = e /\ \A i \in 1 .. n : p[i] = q[i]
  BY <1>2, <1>3
<1> DEFINE v == [i \in 0 .. n + 1 |-> IF i = n + 1 THEN z ELSE w[i]]
<1>5. v \in [0 .. n + 1 -> SUBSET Keys] /\ v[n + 1] = z /\ \A i \in 0 .. n : v[i] = w[i]
  BY <1>1, <1>2
<1> HIDE DEF v
<1>6. v[0] = x
  BY <1>5, <1>1
<1>7. ASSUME NEW i \in 1 .. n + 1 PROVE Turn(v[i - 1], p[i], v[i])
  <2>1. CASE i = n + 1
    <3>1. n + 1 - 1 = n /\ n \in 0 .. n
      OBVIOUS
    <3>2. v[i - 1] = y
      BY <2>1, <3>1, <1>5, <1>1, <1>2
    <3> QED BY <3>2, <2>1, <1>4, <1>5
  <2>2. CASE i \in 1 .. n
    <3>1. i - 1 \in 0 .. n /\ i \in 0 .. n
      BY <2>2
    <3> QED BY <3>1, <2>2, <1>1, <1>2, <1>4, <1>5
  <2> QED BY <2>1, <2>2
<1> QED BY <1>3, <1>4, <1>5, <1>6, <1>7 DEF Turns

LEMMA TurnsTail ==
    ASSUME NEW S, NEW q \in Seq(S), NEW x, NEW y, q # <<>>, Turns(q, x, y)
    PROVE  \E z \in SUBSET Keys : Turn(x, Head(q), z) /\ Turns(Tail(q), z, y)
<1>1. PICK w \in [0 .. Len(q) -> SUBSET Keys] :
        /\ w[0] = x /\ w[Len(q)] = y
        /\ \A i \in 1 .. Len(q) : Turn(w[i - 1], q[i], w[i])
  BY DEF Turns
<1>2. PICK n \in Nat : n + 1 = Len(q)
  <2>1. Len(q) \in Nat /\ Len(q) # 0
    OBVIOUS
  <2>2. Len(q) - 1 \in Nat /\ (Len(q) - 1) + 1 = Len(q)
    BY <2>1
  <2> QED BY <2>2
<1>3. PICK p : p = Tail(q)
  OBVIOUS
<1>4. Len(p) = n /\ Head(q) = q[1] /\ \A i \in 1 .. n : p[i] = q[i + 1]
  BY <1>2, <1>3
<1> DEFINE v == [i \in 0 .. n |-> w[i + 1]]
<1>5. v \in [0 .. n -> SUBSET Keys] /\ \A i \in 0 .. n : v[i] = w[i + 1]
  BY <1>1, <1>2
<1> HIDE DEF v
<1>6. v[0] = w[1] /\ v[n] = y
  BY <1>5, <1>1, <1>2
<1>7. ASSUME NEW i \in 1 .. n PROVE Turn(v[i - 1], p[i], v[i])
  <2>1. i - 1 \in 0 .. n /\ i \in 0 .. n /\ i + 1 \in 1 .. n + 1 /\ (i - 1) + 1 = i /\ (i + 1) - 1 = i
    OBVIOUS
  <2>2. Turn(w[(i + 1) - 1], q[i + 1], w[i + 1])
    BY <2>1, <1>1, <1>2
  <2>3. v[i - 1] = w[i] /\ v[i] = w[i + 1] /\ p[i] = q[i + 1]
    BY <2>1, <1>4, <1>5
  <2> QED BY <2>1, <2>2, <2>3
<1>8. Turn(x, Head(q), w[1]) /\ w[1] \in SUBSET Keys
  <2>1. 1 \in 1 .. Len(q) /\ 1 - 1 = 0 /\ 1 \in 0 .. Len(q)
    BY <1>2
  <2> QED BY <2>1, <1>1, <1>4
<1>9. Turns(p, w[1], y)
  BY <1>4, <1>5, <1>6, <1>7 DEF Turns
<1> QED BY <1>3, <1>8, <1>9

\* Keys told in an order, each once.
LEMMA TurnsTold ==
    ASSUME NEW a \in SUBSET Keys, IsFiniteSet(a), NEW q \in Told(a)
    PROVE  q \in Seq(GEvents) /\ Turns(q, {}, a)
<1>2. PICK n \in Nat : n = Cardinality(a)
  BY FS_CardinalityType
<1>3. /\ q \in [1 .. n -> [key : a, action : {"start"}]]
      /\ {q[i].key : i \in DOMAIN q} = a
  BY <1>2, Zenon DEF Told
<1>4. /\ DOMAIN q = 1 .. n
      /\ \A i \in 1 .. n : q[i].key \in a /\ q[i].action = "start" /\ q[i] \in GEvents
  BY <1>3 DEF GEvents
<1>5. q \in Seq(GEvents) /\ Len(q) = n
  <2>1. q \in [1 .. n -> GEvents]
    BY <1>3, <1>4
  <2> QED BY <2>1
<1> DEFINE f == [i \in 1 .. n |-> q[i].key]
<1>6. f \in Surjection(1 .. n, a)
  BY <1>3, <1>4 DEF Surjection
<1>7. IsFiniteSet(1 .. n) /\ Cardinality(1 .. n) = n
  BY FS_Interval
<1>8. f \in Injection(1 .. n, a)
  <2> HIDE DEF f
  <2> QED BY <1>6, <1>7, <1>2, FS_Surjection
<1>9. \A i, j \in 1 .. n : q[i].key = q[j].key => i = j
  <2>1. \A i, j \in 1 .. n : f[i] = f[j] => i = j
    <3> HIDE DEF f
    <3> QED BY <1>8 DEF Injection, IsInjective
  <2> QED BY <2>1
<1> DEFINE w == [i \in 0 .. n |-> {q[j].key : j \in 1 .. i}]
<1>10. w \in [0 .. n -> SUBSET Keys]
  <2>1. SUFFICES ASSUME NEW i \in 0 .. n, NEW j \in 1 .. i PROVE q[j].key \in Keys
    OBVIOUS
  <2>2. j \in 1 .. n
    BY <2>1
  <2> QED BY <2>2, <1>4
<1>11. w[0] = {} /\ w[n] = a
  <2>1. w[0] = {q[j].key : j \in 1 .. 0} /\ w[n] = {q[j].key : j \in 1 .. n}
    OBVIOUS
  <2>2. 1 .. 0 = {}
    OBVIOUS
  <2> HIDE DEF w
  <2> QED BY <2>1, <2>2, <1>3, <1>4
<1>12. ASSUME NEW i \in 1 .. n PROVE Turn(w[i - 1], q[i], w[i])
  <2>1. i - 1 \in 0 .. n /\ i \in 0 .. n
    OBVIOUS
  <2>2. w[i - 1] = {q[j].key : j \in 1 .. i - 1} /\ w[i] = {q[j].key : j \in 1 .. i}
    BY <2>1
  <2> HIDE DEF w
  <2>3. 1 .. i = 1 .. i - 1 \cup {i} /\ \A j \in 1 .. i - 1 : j \in 1 .. n /\ j # i
    OBVIOUS
  <2>4. q[i].key \notin w[i - 1]
    BY <2>2, <2>3, <1>9
  <2>5. w[i] = w[i - 1] \cup {q[i].key}
    BY <2>2, <2>3
  <2> QED BY <2>4, <2>5, <1>4 DEF Turn
<1> HIDE DEF w
<1> QED BY <1>5, <1>10, <1>11, <1>12 DEF Turns

\* A device is taken out of the cache, where it is once at most.
LEMMA UncachedFacts ==
    ASSUME md_requests \in Seq(Keys), NEW k,
           \A i, j \in DOMAIN md_requests : md_requests[i] = md_requests[j] => i = j
    PROVE  \E r \in Seq(Keys) :
              /\ r = Uncached(k)
              /\ Range(r) = Range(md_requests) \ {k}
              /\ \A i, j \in DOMAIN r : r[i] = r[j] => i = j
<1> DEFINE Mine(s) == {i \in DOMAIN s : s[i] = k}
           First(s) == CHOOSE i \in Mine(s) : \A j \in Mine(s) : i <= j
           Cut(s, c) == SubSeq(s, 1, c - 1) \o SubSeq(s, c + 1, Len(s))
<1>1. Uncached(k) = IF Mine(md_requests) = {} THEN md_requests
                       ELSE Cut(md_requests, First(md_requests))
  BY Zenon DEF Uncached
<1> HIDE DEF First, Cut
<1>2. PICK s \in Seq(Keys) :
        /\ s = md_requests
        /\ Uncached(k) = IF Mine(s) = {} THEN s ELSE Cut(s, First(s))
  <2> HIDE DEF Mine
  <2> QED BY <1>1, Zenon
<1> DEFINE mine == Mine(s)
<1>3. CASE mine = {}
  <2>1. Uncached(k) = s
    BY <1>2, <1>3, Zenon
  <2>2. k \notin Range(s)
    BY <1>3 DEF Range
  <2>3. Range(s) = Range(s) \ {k}
    BY <2>2
  <2> QED BY <2>1, <2>3, <1>2
<1>4. CASE mine # {}
  <2>1. k \in Range(s)
    BY <1>4 DEF Range
  <2>2. PICK i \in DOMAIN s : s[i] = k /\ \A j \in 1 .. i - 1 : s[j] # k
    BY <2>1, FirstIndex
  <2>3. i \in mine /\ \A j \in mine : i <= j
    <3>1. SUFFICES ASSUME NEW j \in mine, j < i PROVE FALSE
      BY <2>2
    <3> QED BY <3>1, <2>2
  <2>4. First(s) \in mine
    <3> HIDE DEF Mine
    <3> QED BY <2>3 DEF First
  <2>5. PICK c \in 1 .. Len(s) : c = First(s)
    BY <2>4
  <2>6. s[c] = k
    BY <2>4, <2>5
  <2>7. Uncached(k) = Cut(s, c)
    BY <1>2, <1>4, <2>5, Zenon
  <2>8. PICK r \in Seq(Keys) :
          /\ r = Cut(s, c)
          /\ Range(r) \subseteq Range(s)
          /\ \A q \in Range(s) : q # s[c] => q \in Range(r)
          /\ (\A m, j \in DOMAIN s : s[m] = s[j] => m = j) =>
               /\ s[c] \notin Range(r)
               /\ \A m, j \in DOMAIN r : r[m] = r[j] => m = j
          /\ \A q : Once(s, q) => Once(r, q) /\ (s[c] = q => q \notin Range(r))
    BY RemoveOne, Zenon DEF Cut
  <2>9. \A m, j \in DOMAIN s : s[m] = s[j] => m = j
    BY <1>2
  <2>10. Range(r) = Range(s) \ {k}
    BY <2>6, <2>8, <2>9
  <2> QED BY <1>2, <2>7, <2>8, <2>9, <2>10, Zenon
<1> QED BY <1>3, <1>4

LEMMA HInvFrame ==
    HInv /\ UNCHANGED <<phys, hevents, table, emptied, md_requests, matched, missed, stale>> => HInv'
<1> SUFFICES ASSUME HInv, UNCHANGED <<phys, hevents, table, emptied, md_requests, matched, missed, stale>>
             PROVE  HInv'
  OBVIOUS
<1>1. OneHost' /\ Hostless' /\ CacheIsOfMatched'
  BY DEF HInv, OneHost, Hostless, CacheIsOfMatched
<1>2. Listing' /\ Coming' /\ InstanceHasHost'
  BY DEF HInv, Listing, Coming, InstanceHasHost
<1> QED BY <1>1, <1>2 DEF HInv

-----------------------------------------------------------------------------
\* Nobody is known at the start.
LEMMA InitDInv == DevicesInit => DInv
<1> SUFFICES ASSUME DevicesInit PROVE DInv
  OBVIOUS
<1>1. DevicesTypeOK
  BY DeviceAssumption DEF DevicesInit, DevicesTypeOK, Devices
<1>2. HInv
  <2>1. Range(md_requests) = {}
    BY DEF DevicesInit, Range
  <2>2. \A d \in Devices, h \in Hosts : ~ On(table, d, h)
    BY DEF DevicesInit, On
  <2>3. \A g \in Hosts : phys[g] \notin Keys
    BY DeviceAssumption DEF DevicesInit
  <2>4. matched = {} /\ DOMAIN md_requests = {}
    BY DEF DevicesInit
  <2>5. InstanceHasHost
    BY DeviceAssumption DEF DevicesInit, InstanceHasHost
  <2> QED BY <2>1, <2>2, <2>3, <2>4, <2>5 DEF HInv, OneHost, Hostless, Listing, Coming, CacheIsOfMatched
<1>3. EventsLead
  BY DEF DevicesInit, EventsLead
<1> QED BY <1>1, <1>2, <1>3 DEF DInv

\* gMap.
LEMMA FlipKeepsDInv ==
    ASSUME DInv, NEW k \in Keys, DeviceMatches(k) \/ DeviceLeaves(k)
    PROVE  DInv'
<1>1. PICK e \in GEvents :
        /\ e.key = k /\ Turn(active, e, active')
        /\ gevents' = IF stage = "on" THEN Append(gevents, e) ELSE gevents
        /\ flips < MaxFlips /\ flips' = flips + 1
        /\ active' \subseteq Keys
        /\ UNCHANGED <<phys, stage, hevents, table, emptied, md_requests, cachedHost, matched,
                       missed, stale, failures>>
  <2>1. CASE DeviceMatches(k)
    <3> DEFINE e == [key |-> k, action |-> "start"]
    <3>1. e \in GEvents /\ e.key = k /\ Turn(active, e, active') /\ active' \subseteq Keys
      BY <2>1 DEF DeviceMatches, GEvents, Turn, DInv, DevicesTypeOK
    <3>2. Flip(k, "start")
      BY <2>1 DEF DeviceMatches
    <3> QED BY <3>1, <3>2, Zenon DEF Flip, instances, cache
  <2>2. CASE DeviceLeaves(k)
    <3> DEFINE e == [key |-> k, action |-> "stop"]
    <3>1. e \in GEvents /\ e.key = k /\ Turn(active, e, active') /\ active' \subseteq Keys
      BY <2>2 DEF DeviceLeaves, GEvents, Turn, DInv, DevicesTypeOK
    <3>2. Flip(k, "stop")
      BY <2>2 DEF DeviceLeaves
    <3> QED BY <3>1, <3>2, Zenon DEF Flip, instances, cache
  <2> QED BY <2>1, <2>2
<1>2. gevents' \in Seq(GEvents)
  <2>1. gevents \in Seq(GEvents)
    BY DEF DInv, DevicesTypeOK
  <2>2. Append(gevents, e) \in Seq(GEvents)
    BY <2>1, RangeAppend
  <2> QED BY <1>1, <2>1, <2>2, Zenon
<1>3. DevicesTypeOK'
  BY <1>1, <1>2, DeviceAssumption DEF DInv, DevicesTypeOK
<1>4. HInv'
  BY <1>1, HInvFrame DEF DInv
<1>5. EventsLead'
  <2>1. CASE stage = "on"
    <3>1. Turns(gevents, matched, active)
      BY <2>1 DEF DInv, EventsLead
    <3>2. gevents \in Seq(GEvents)
      BY DEF DInv, DevicesTypeOK
    <3>3. Turns(Append(gevents, e), matched, active')
      BY <3>1, <3>2, <1>1, TurnsAppend
    <3> QED BY <3>3, <2>1, <1>1, Zenon DEF EventsLead
  <2>2. CASE stage # "on"
    BY <2>2, <1>1, Zenon DEF DInv, EventsLead
  <2> QED BY <2>1, <2>2
<1> QED BY <1>3, <1>4, <1>5 DEF DInv

\* The starts that leave the events and the lists alone.
LEMMA StartKeepsDInv ==
    ASSUME DInv, Subscribe \/ OpenQuery \/ GiveUp
    PROVE  DInv'
<1>1. /\ UNCHANGED <<phys, active, hevents, table, emptied, md_requests, cachedHost, matched,
                     missed, stale, flips>>
      /\ failures' \in 0 .. MaxFailures
      /\ stage # "on" /\ gevents = <<>> /\ matched = {}
      /\ \/ UNCHANGED gevents /\ stage' \in {"host", "gmap", "off"}
         \/ stage' = "on" /\ gevents' \in Told(active)
  <2>1. failures' \in 0 .. MaxFailures
    BY DeviceAssumption DEF Subscribe, OpenQuery, GiveUp, CallFails, DInv, DevicesTypeOK
  <2>2. stage # "on"
    BY DEF Subscribe, OpenQuery, GiveUp
  <2>3. \/ UNCHANGED gevents /\ stage' \in {"host", "gmap", "off"}
        \/ stage' = "on" /\ gevents' \in Told(active)
    BY DEF Subscribe, OpenQuery, GiveUp, events
  <2>4. UNCHANGED <<phys, active, hevents, table, emptied, md_requests, cachedHost, matched,
                    missed, stale, flips>>
    BY DEF Subscribe, OpenQuery, GiveUp, events, instances, cache
  <2> QED BY <2>1, <2>2, <2>3, <2>4 DEF DInv, EventsLead
<1>2. HInv'
  BY <1>1, HInvFrame DEF DInv
<1>3. gevents' \in Seq(GEvents) /\ EventsLead'
  <2>1. CASE UNCHANGED gevents /\ stage' \in {"host", "gmap", "off"}
    BY <2>1, <1>1 DEF EventsLead, DInv, DevicesTypeOK
  <2>2. CASE stage' = "on" /\ gevents' \in Told(active)
    <3>1. active \in SUBSET Keys /\ IsFiniteSet(active)
      BY FS_Subset, DeviceAssumption DEF DInv, DevicesTypeOK
    <3>2. gevents' \in Seq(GEvents) /\ Turns(gevents', {}, active)
      BY <3>1, <2>2, TurnsTold
    <3> QED BY <3>2, <2>2, <1>1, Zenon DEF EventsLead
  <2> QED BY <2>1, <2>2, <1>1
<1>4. DevicesTypeOK'
  BY <1>1, <1>3 DEF DInv, DevicesTypeOK
<1> QED BY <1>2, <1>3, <1>4 DEF DInv

\* The plugin starts again and forgets everything.
LEMMA RestartKeepsDInv ==
    ASSUME DInv, PluginRestarts
    PROVE  DInv'
<1>1. DevicesTypeOK'
  BY DeviceAssumption DEF PluginRestarts, CallFails, DevicesTypeOK, Devices, DInv
<1>2. HInv'
  <2>1. Range(md_requests') = {}
    BY DEF PluginRestarts, Range
  <2>2. \A d \in Devices, h \in Hosts : ~ On(table', d, h)
    BY DEF PluginRestarts, On
  <2>3. \A g, h \in Hosts : phys'[g] \in Keys /\ phys'[g] = phys'[h] => g = h
    BY DEF PluginRestarts, DInv, HInv, OneHost
  <2>4. matched' = {} /\ DOMAIN md_requests' = {}
    BY DEF PluginRestarts
  <2>5. InstanceHasHost'
    BY DeviceAssumption DEF PluginRestarts, InstanceHasHost
  <2> QED BY <2>1, <2>2, <2>3, <2>4, <2>5 DEF HInv, OneHost, Hostless, Listing, Coming, CacheIsOfMatched
<1>3. EventsLead'
  BY DEF PluginRestarts, EventsLead
<1> QED BY <1>1, <1>2, <1>3 DEF DInv

\* What the updates of the table do to its entries.
LEMMA ListedFacts ==
    ASSUME DevicesTypeOK, NEW d \in Devices, NEW S \in SUBSET Hosts
    PROVE  /\ Listed(d, S) \in [Devices -> {NONE} \cup SUBSET Hosts]
           /\ \A e \in Devices, h \in Hosts :
                On(Listed(d, S), e, h) <=> On(table, e, h) \/ (e = d /\ h \in S)
           /\ \A e \in Devices : Listed(d, S)[e] = {} /\ S # {} => table[e] = {} /\ e # d
<1>1. table \in [Devices -> {NONE} \cup SUBSET Hosts] /\ \A T \in SUBSET Hosts : NONE # T
  BY DeviceAssumption DEF DevicesTypeOK
<1>2. Listed(d, S) = [table EXCEPT ![d] = IF table[d] = NONE THEN S ELSE table[d] \cup S]
  BY DEF Listed
<1>3. \A e \in Devices : Listed(d, S)[e] =
         IF e = d THEN IF table[d] = NONE THEN S ELSE table[d] \cup S ELSE table[e]
  BY <1>1, <1>2
<1>4. Listed(d, S) \in [Devices -> {NONE} \cup SUBSET Hosts]
  BY <1>1, <1>2
<1>5. (IF table[d] = NONE THEN S ELSE table[d] \cup S) # NONE
  BY <1>1
<1>6. ASSUME NEW e \in Devices, NEW h \in Hosts
      PROVE  On(Listed(d, S), e, h) <=> On(table, e, h) \/ (e = d /\ h \in S)
  <2>1. CASE e = d
    BY <2>1, <1>3, <1>5 DEF On
  <2>2. CASE e # d
    BY <2>2, <1>3 DEF On
  <2> QED BY <2>1, <2>2
<1>7. ASSUME NEW e \in Devices, Listed(d, S)[e] = {}, S # {} PROVE table[e] = {} /\ e # d
  <2>1. CASE e = d
    BY <2>1, <1>3, <1>7
  <2>2. CASE e # d
    BY <2>2, <1>3, <1>7
  <2> QED BY <2>1, <2>2
<1> QED BY <1>4, <1>6, <1>7

LEMMA UnlistedFacts ==
    ASSUME DevicesTypeOK, NEW d \in Devices, NEW g \in Hosts, On(table, d, g)
    PROVE  /\ Unlisted(d, g) \in [Devices -> {NONE} \cup SUBSET Hosts]
           /\ \A e \in Devices, h \in Hosts :
                On(Unlisted(d, g), e, h) <=> On(table, e, h) /\ ~ (e = d /\ h = g)
           /\ \A e \in Devices : Unlisted(d, g)[e] = {} => table[e] = {}
<1>1. table \in [Devices -> {NONE} \cup SUBSET Hosts] /\ \A T \in SUBSET Hosts : NONE # T
  BY DeviceAssumption DEF DevicesTypeOK
<1>2. Unlisted(d, g) = [table EXCEPT ![d] = IF table[d] \ {g} = {} THEN NONE ELSE table[d] \ {g}]
  BY DEF Unlisted
<1>3. \A e \in Devices : Unlisted(d, g)[e] =
         IF e = d THEN IF table[d] \ {g} = {} THEN NONE ELSE table[d] \ {g} ELSE table[e]
  BY <1>1, <1>2
<1>4. table[d] \in SUBSET Hosts /\ table[d] \ {g} # NONE
  BY <1>1 DEF On
<1>5. Unlisted(d, g) \in [Devices -> {NONE} \cup SUBSET Hosts]
  BY <1>1, <1>2, <1>4
<1>6. ASSUME NEW e \in Devices, NEW h \in Hosts
      PROVE  On(Unlisted(d, g), e, h) <=> On(table, e, h) /\ ~ (e = d /\ h = g)
  <2>1. CASE e = d
    BY <2>1, <1>3, <1>4 DEF On
  <2>2. CASE e # d
    BY <2>2, <1>3 DEF On
  <2> QED BY <2>1, <2>2
<1>7. ASSUME NEW e \in Devices, Unlisted(d, g)[e] = {} PROVE table[e] = {}
  BY <1>1, <1>3, <1>7
<1> QED BY <1>5, <1>6, <1>7

\* The identity of a key is a device.
LEMMA IdentityFacts == \A k \in Keys : Identity[k] \in Devices
BY DEF Devices

\* Hosts.
LEMMA HostSetKeepsDInv ==
    ASSUME DInv, NEW g \in Hosts, NEW k \in Keys, HostSet(g, k)
    PROVE  DInv'
<1>1. /\ phys[g] = "none" /\ \A h \in Hosts : phys[h] # k
      /\ phys' = [phys EXCEPT ![g] = k]
      /\ hevents' = IF stage \in {"gmap", "on"} THEN Append(hevents, [host |-> g, to |-> k]) ELSE hevents
      /\ UNCHANGED <<active, stage, gevents, table, emptied, md_requests, cachedHost, matched,
                     missed, stale, flips, failures>>
  BY Zenon DEF HostSet, HostsOf, instances, cache
<1>2. /\ phys \in [Hosts -> Keys \cup {"none", "deleted"}] /\ hevents \in Seq(HEvents)
      /\ "none" \notin Keys /\ "deleted" \notin Keys
  BY DeviceAssumption DEF DInv, DevicesTypeOK
<1>3. phys'[g] = k /\ \A h \in Hosts : h # g => phys'[h] = phys[h]
  BY <1>1, <1>2
<1>4. PICK e \in HEvents : e = [host |-> g, to |-> k]
  BY DEF HEvents
<1>5. /\ hevents' \in Seq(HEvents)
      /\ Range(hevents) \subseteq Range(hevents')
      /\ stage = "on" => e \in Range(hevents')
  <2>1. /\ Append(hevents, e) \in Seq(HEvents)
        /\ Range(Append(hevents, e)) = Range(hevents) \cup {e}
    BY <1>2, RangeAppend
  <2>2. CASE stage \in {"gmap", "on"}
    <3>1. hevents' = Append(hevents, e)
      BY <1>1, <1>4, <2>2, Zenon
    <3> QED BY <3>1, <2>1
  <2>3. CASE stage \notin {"gmap", "on"}
    <3>1. hevents' = hevents /\ stage # "on"
      BY <1>1, <2>3
    <3> QED BY <3>1, <1>2
  <2> QED BY <2>2, <2>3
<1>6. DevicesTypeOK'
  <2>1. phys' \in [Hosts -> Keys \cup {"none", "deleted"}]
    BY <1>1, <1>2
  <2> QED BY <2>1, <1>1, <1>5 DEF DInv, DevicesTypeOK
<1>7. EventsLead'
  BY <1>1, Zenon DEF DInv, EventsLead
<1>8. OneHost'
  BY <1>1, <1>2, <1>3 DEF DInv, HInv, OneHost
<1>9. Hostless' /\ CacheIsOfMatched'
  <2>1. CacheIsOfMatched'
    BY <1>1 DEF DInv, HInv, CacheIsOfMatched
  <2>2. Hostless'
    <3>1. SUFFICES ASSUME NEW l \in matched \ missed, \A h \in Hosts : phys'[h] # l
                   PROVE  l \in Range(md_requests)
      BY <1>1 DEF Hostless
    <3>2. l \in Keys
      BY DEF DInv, DevicesTypeOK
    <3>3. \A h \in Hosts : phys[h] # l
      BY <3>1, <3>2, <1>1, <1>2, <1>3
    <3> QED BY <3>3 DEF DInv, HInv, Hostless
  <2> QED BY <2>1, <2>2
<1>10. Listing'
  <2>1. SUFFICES ASSUME NEW d \in Devices, NEW h \in Hosts, On(table, d, h)
                 PROVE  /\ phys'[h] \in Keys /\ Identity[phys'[h]] = d
                        /\ phys'[h] \in matched \/ h \in stale
    BY <1>1 DEF Listing
  <2>2. /\ phys[h] \in Keys /\ Identity[phys[h]] = d
        /\ phys[h] \in matched \/ h \in stale
    BY <2>1 DEF DInv, HInv, Listing
  <2> QED BY <2>2, <1>1, <1>2, <1>3
<1>11. Coming'
  <2>1. SUFFICES ASSUME NEW l \in matched \ missed, NEW h \in Hosts, phys'[h] = l
                 PROVE  \/ On(table, Identity[l], h)
                        \/ /\ l \in Range(md_requests)
                           /\ [host |-> h, to |-> l] \in Range(hevents')
    BY <1>1 DEF Coming
  <2>2. CASE h = g
    <3>1. l = k /\ l \in Range(md_requests)
      BY <2>1, <2>2, <1>1, <1>3 DEF DInv, HInv, Hostless
    <3>2. stage = "on"
      BY <2>1 DEF DInv, EventsLead
    <3> QED BY <3>1, <3>2, <2>2, <1>4, <1>5
  <2>3. CASE h # g
    <3>1. \/ On(table, Identity[l], h)
          \/ l \in Range(md_requests) /\ [host |-> h, to |-> l] \in Range(hevents)
      BY <2>1, <2>3, <1>3 DEF DInv, HInv, Coming
    <3> QED BY <3>1, <1>5
  <2> QED BY <2>2, <2>3
<1>12. InstanceHasHost'
  BY <1>1 DEF DInv, HInv, InstanceHasHost
<1> QED BY <1>6, <1>7, <1>8, <1>9, <1>10, <1>11, <1>12 DEF DInv, HInv

LEMMA HostDeletedKeepsDInv ==
    ASSUME DInv, NEW g \in Hosts, HostDeleted(g)
    PROVE  DInv'
<1>1. /\ phys[g] \in Keys
      /\ phys' = [phys EXCEPT ![g] = "deleted"]
      /\ table' = [d \in Devices |-> IF table[d] = NONE THEN NONE ELSE table[d] \ {g}]
      /\ missed' = IF phys[g] \in matched \ Range(md_requests) THEN missed \cup {phys[g]} ELSE missed
      /\ emptied' = emptied \cup {d \in Devices : table[d] = {g}}
      /\ UNCHANGED <<active, stage, gevents, hevents, md_requests, cachedHost, matched, stale,
                     flips, failures>>
  BY DEF HostDeleted, events, cache
<1>2. /\ phys \in [Hosts -> Keys \cup {"none", "deleted"}]
      /\ table \in [Devices -> {NONE} \cup SUBSET Hosts]
      /\ "none" \notin Keys /\ "deleted" \notin Keys
      /\ missed \subseteq matched /\ matched \subseteq Keys
      /\ \A T \in SUBSET Hosts : NONE # T
  BY DeviceAssumption DEF DInv, DevicesTypeOK
<1>3. phys'[g] = "deleted" /\ \A h \in Hosts : h # g => phys'[h] = phys[h]
  BY <1>1, <1>2
<1>4. /\ table' \in [Devices -> {NONE} \cup SUBSET Hosts]
      /\ \A d \in Devices, h \in Hosts : On(table', d, h) <=> On(table, d, h) /\ h # g
  <2>1. \A d \in Devices : table'[d] = IF table[d] = NONE THEN NONE ELSE table[d] \ {g}
    BY <1>1
  <2>2. \A d \in Devices : table[d] = NONE \/ (table[d] \in SUBSET Hosts /\ table[d] \ {g} # NONE)
    BY <1>2
  <2> QED BY <1>1, <2>1, <2>2 DEF On
<1>5. /\ missed \subseteq missed' /\ missed' \subseteq matched
      /\ phys[g] \in matched \ missed' => phys[g] \in Range(md_requests)
  BY <1>1, <1>2
<1>6. DevicesTypeOK'
  <2>1. phys' \in [Hosts -> Keys \cup {"none", "deleted"}]
    BY <1>1, <1>2
  <2>2. emptied' \subseteq Devices
    BY <1>1 DEF DInv, DevicesTypeOK
  <2> QED BY <2>1, <2>2, <1>1, <1>4, <1>5 DEF DInv, DevicesTypeOK
<1>7. EventsLead'
  BY <1>1, Zenon DEF DInv, EventsLead
<1>8. OneHost'
  BY <1>1, <1>2, <1>3 DEF DInv, HInv, OneHost
<1>9. Hostless' /\ CacheIsOfMatched'
  <2>1. CacheIsOfMatched'
    BY <1>1 DEF DInv, HInv, CacheIsOfMatched
  <2>2. Hostless'
    <3>1. SUFFICES ASSUME NEW l \in matched \ missed', \A h \in Hosts : phys'[h] # l
                   PROVE  l \in Range(md_requests)
      BY <1>1 DEF Hostless
    <3>2. CASE l = phys[g]
      BY <3>2, <1>5
    <3>3. CASE l # phys[g]
      <4>1. \A h \in Hosts : phys[h] # l
        BY <3>1, <3>3, <1>3
      <4> QED BY <4>1, <1>5 DEF DInv, HInv, Hostless
    <3> QED BY <3>2, <3>3
  <2> QED BY <2>1, <2>2
<1>10. Listing'
  BY <1>1, <1>3, <1>4 DEF DInv, HInv, Listing
<1>11. Coming'
  <2>1. SUFFICES ASSUME NEW l \in matched \ missed', NEW h \in Hosts, phys'[h] = l
                 PROVE  \/ On(table', Identity[l], h)
                        \/ /\ l \in Range(md_requests)
                           /\ [host |-> h, to |-> l] \in Range(hevents)
    BY <1>1 DEF Coming
  <2>2. h # g /\ phys[h] = l /\ Identity[l] \in Devices
    BY <2>1, <1>2, <1>3, IdentityFacts
  <2>3. \/ On(table, Identity[l], h)
        \/ l \in Range(md_requests) /\ [host |-> h, to |-> l] \in Range(hevents)
    BY <2>1, <2>2, <1>5 DEF DInv, HInv, Coming
  <2> QED BY <2>2, <2>3, <1>4
<1>12. InstanceHasHost'
  <2>1. SUFFICES ASSUME NEW d \in Devices, table'[d] = {} PROVE d \in emptied'
    BY DEF InstanceHasHost
  <2>2. table[d] # NONE /\ table[d] \ {g} = {}
    BY <2>1, <1>1, <1>2
  <2>3. table[d] = {} \/ table[d] = {g}
    BY <2>2
  <2> QED BY <2>3, <1>1 DEF DInv, HInv, InstanceHasHost
<1> QED BY <1>6, <1>7, <1>8, <1>9, <1>10, <1>11, <1>12 DEF DInv, HInv

\* The types of what the handlers of events write.
Written ==
    /\ table \in [Devices -> {NONE} \cup SUBSET Hosts]
    /\ md_requests \in Seq(Keys) /\ cachedHost \in [Keys -> Hosts \cup {NONE}]
    /\ matched \subseteq Keys /\ missed \subseteq matched /\ stale \subseteq Hosts
    /\ emptied \subseteq Devices
    /\ failures \in 0 .. MaxFailures

LEMMA CallFailsFacts ==
    ASSUME DevicesTypeOK
    PROVE  \A c \in {"none", "get", "add"} : CallFails(c) => failures' \in 0 .. MaxFailures
<1>1. failures \in 0 .. MaxFailures /\ MaxFailures \in Nat
  BY DeviceAssumption DEF DevicesTypeOK
<1> QED BY <1>1 DEF CallFails

\* gmap_query_expression_start_matching, of a device that is not known.
LEMMA StartMatchingKeepsHInv ==
    ASSUME DevicesTypeOK, HInv, NEW k \in Keys, k \notin matched,
           StartMatching(k), UNCHANGED <<phys, hevents>>
    PROVE  Written' /\ HInv' /\ matched' = matched \cup {k}
<1> DEFINE own == HostsOf(k)
<1>1. PICK call \in {"none", "get", "add"} :
         /\ CallFails(call)
         /\ \/ /\ call = "none" /\ own # {}
               /\ table' = Listed(Identity[k], own) /\ emptied' = emptied \ {Identity[k]}
               /\ UNCHANGED <<md_requests, cachedHost, missed>>
            \/ /\ call = "get" \/ (call = "none" /\ own = {})
               /\ md_requests' = Append(md_requests, k)
               /\ cachedHost' = [cachedHost EXCEPT ![k] = NONE]
               /\ missed' = IF call = "get" THEN missed \cup {k} ELSE missed
               /\ UNCHANGED <<table, emptied>>
            \/ /\ call = "add" /\ own # {}
               /\ missed' = missed \cup {k}
               /\ UNCHANGED <<table, emptied, md_requests, cachedHost>>
  BY Zenon DEF StartMatching, List, instances, cache
<1>2. matched' = matched \cup {k} /\ stale' = stale \ own /\ phys' = phys /\ hevents' = hevents
  BY DEF StartMatching
<1>3. own \in SUBSET Hosts /\ \A h \in Hosts : h \in own <=> phys[h] = k
  BY DEF HostsOf
<1> HIDE DEF own
<1>4. /\ table \in [Devices -> {NONE} \cup SUBSET Hosts] /\ md_requests \in Seq(Keys)
      /\ matched \subseteq Keys /\ missed \subseteq matched /\ stale \subseteq Hosts
  BY DEF DevicesTypeOK
<1>5. Identity[k] \in Devices
  BY IdentityFacts
<1>6. /\ table' \in [Devices -> {NONE} \cup SUBSET Hosts]
      /\ \A d \in Devices, h \in Hosts :
           On(table', d, h) => On(table, d, h) \/ (d = Identity[k] /\ h \in own)
      /\ \A d \in Devices, h \in Hosts : On(table, d, h) => On(table', d, h)
      /\ k \notin missed' => \A h \in own : On(table', Identity[k], h)
  <2>1. CASE table' = Listed(Identity[k], own)
    BY <2>1, <1>3, <1>5, ListedFacts
  <2>2. CASE UNCHANGED table /\ (k \in missed' \/ own = {})
    BY <2>2, <1>4 DEF On
  <2> QED BY <1>1, <2>1, <2>2
<1>7. \/ UNCHANGED md_requests /\ (k \in missed' \/ own # {})
      \/ md_requests' = Append(md_requests, k)
  BY <1>1
<1>8. missed' = missed \/ missed' = missed \cup {k}
  BY <1>1
<1>9. /\ md_requests' \in Seq(Keys)
      /\ Range(md_requests) \subseteq Range(md_requests')
      /\ Range(md_requests') \subseteq Range(md_requests) \cup {k}
      /\ k \notin missed' /\ own = {} => k \in Range(md_requests')
  <2>1. CASE UNCHANGED md_requests /\ (k \in missed' \/ own # {})
    BY <2>1, <1>4
  <2>2. CASE md_requests' = Append(md_requests, k)
    <3>1. Append(md_requests, k) \in Seq(Keys) /\ Range(Append(md_requests, k)) = Range(md_requests) \cup {k}
      BY <1>4, RangeAppend
    <3> QED BY <3>1, <2>2
  <2> QED BY <1>7, <2>1, <2>2
<1>10. Written'
  <2>1. failures' \in 0 .. MaxFailures
    BY <1>1, CallFailsFacts
  <2>2. cachedHost' \in [Keys -> Hosts \cup {NONE}] /\ emptied' \subseteq Devices
    BY <1>1 DEF DevicesTypeOK
  <2> QED BY <2>1, <2>2, <1>2, <1>4, <1>6, <1>8, <1>9 DEF Written
<1>11. OneHost'
  BY <1>2 DEF HInv, OneHost
<1>12. Hostless'
  BY <1>2, <1>3, <1>8, <1>9 DEF HInv, Hostless
<1>13. Listing'
  BY <1>2, <1>3, <1>6 DEF HInv, Listing
<1>14. Coming'
  <2>1. SUFFICES ASSUME NEW l \in matched' \ missed', NEW h \in Hosts, phys[h] = l
                 PROVE  \/ On(table', Identity[l], h)
                        \/ /\ l \in Range(md_requests')
                           /\ [host |-> h, to |-> l] \in Range(hevents)
    BY <1>2 DEF Coming
  <2>2. CASE l = k
    BY <2>1, <2>2, <1>3, <1>6
  <2>3. CASE l # k
    <3>1. l \in matched \ missed /\ Identity[l] \in Devices
      BY <2>1, <2>3, <1>2, <1>4, <1>8, IdentityFacts
    <3>2. \/ On(table, Identity[l], h)
          \/ l \in Range(md_requests) /\ [host |-> h, to |-> l] \in Range(hevents)
      BY <3>1, <2>1 DEF HInv, Coming
    <3> QED BY <3>1, <3>2, <1>6, <1>9
  <2> QED BY <2>2, <2>3
<1>15. CacheIsOfMatched'
  <2>1. Range(md_requests) \subseteq matched
        /\ \A i, j \in DOMAIN md_requests : md_requests[i] = md_requests[j] => i = j
    BY DEF HInv, CacheIsOfMatched
  <2>2. Range(md_requests') \subseteq matched'
    BY <2>1, <1>2, <1>9
  <2>3. \A i, j \in DOMAIN md_requests' : md_requests'[i] = md_requests'[j] => i = j
    <3>1. CASE UNCHANGED md_requests
      BY <3>1, <2>1
    <3>2. CASE md_requests' = Append(md_requests, k)
      <4>1. PICK r \in Seq(Keys) : r = md_requests
        BY <1>4
      <4>2. \A i \in DOMAIN r : r[i] # k
        BY <4>1, <2>1 DEF Range
      <4>3. \A i, j \in DOMAIN r : r[i] = r[j] => i = j
        BY <4>1, <2>1
      <4>4. PICK q \in Seq(Keys) : q = Append(r, k)
        BY RangeAppend
      <4>5. /\ DOMAIN q = 1 .. Len(r) + 1 /\ DOMAIN r = 1 .. Len(r) /\ Len(r) \in Nat
            /\ q[Len(r) + 1] = k /\ \A i \in 1 .. Len(r) : q[i] = r[i]
        BY <4>4
      <4>6. ASSUME NEW i \in DOMAIN q, NEW j \in DOMAIN q, q[i] = q[j] PROVE i = j
        <5>1. i \in 1 .. Len(r) \/ i = Len(r) + 1
          BY <4>5
        <5>2. j \in 1 .. Len(r) \/ j = Len(r) + 1
          BY <4>5
        <5> QED BY <5>1, <5>2, <4>2, <4>3, <4>5, <4>6
      <4>7. md_requests' = q
        BY <3>2, <4>1, <4>4
      <4> QED BY <4>6, <4>7, Zenon
    <3> QED BY <1>7, <3>1, <3>2
  <2> QED BY <2>2, <2>3 DEF CacheIsOfMatched
<1>16. InstanceHasHost'
  <2>1. CASE /\ own # {} /\ table' = Listed(Identity[k], own)
             /\ emptied' = emptied \ {Identity[k]}
    <3>1. \A e \in Devices : table'[e] = {} => table[e] = {} /\ e # Identity[k]
      BY <2>1, <1>3, <1>5, ListedFacts
    <3> QED BY <3>1, <2>1 DEF HInv, InstanceHasHost
  <2>2. CASE UNCHANGED <<table, emptied>>
    BY <2>2 DEF HInv, InstanceHasHost
  <2> QED BY <1>1, <2>1, <2>2
<1> QED BY <1>2, <1>10, <1>11, <1>12, <1>13, <1>14, <1>15, <1>16 DEF HInv

\* gmap_query_expression_stop_matching.
LEMMA StopMatchingKeepsHInv ==
    ASSUME DevicesTypeOK, HInv, NEW k \in Keys,
           StopMatching(k), UNCHANGED <<phys, hevents>>
    PROVE  Written' /\ HInv' /\ matched' = matched \ {k}
<1> DEFINE own == HostsOf(k)
           Of(h) == {d \in Devices : table[d] # NONE /\ h \in table[d]}
<1>1. PICK call \in {"none", "get"} :
         /\ CallFails(call)
         /\ \/ /\ \E h \in own : \E d \in Of(h) : table' = Unlisted(d, h)
               /\ UNCHANGED stale
            \/ /\ \A h \in own : Of(h) = {}
               /\ UNCHANGED <<table, stale>>
            \/ /\ stale' = stale \cup own
               /\ UNCHANGED table
  BY Zenon DEF StopMatching
<1>2. /\ matched' = matched \ {k} /\ missed' = missed \ {k}
      /\ phys' = phys /\ hevents' = hevents /\ emptied' = emptied
      /\ md_requests' = Uncached(k) /\ cachedHost' = [cachedHost EXCEPT ![k] = NONE]
  BY DEF StopMatching, Uncache
<1>3. own \in SUBSET Hosts /\ \A h \in Hosts : h \in own <=> phys[h] = k
  BY DEF HostsOf
<1>4. \A h \in Hosts : \A d : d \in Of(h) <=> d \in Devices /\ On(table, d, h)
  BY DEF On
<1> HIDE DEF own, Of
<1>5. /\ table \in [Devices -> {NONE} \cup SUBSET Hosts] /\ md_requests \in Seq(Keys)
      /\ matched \subseteq Keys /\ missed \subseteq matched /\ stale \subseteq Hosts
  BY DEF DevicesTypeOK
<1>6. \A g, h \in own : g = h
  BY <1>3 DEF HInv, OneHost
\* The host of k is listed for the device of k at most.
<1>7. /\ table' \in [Devices -> {NONE} \cup SUBSET Hosts] /\ stale' \subseteq Hosts
      /\ stale \subseteq stale'
      /\ \A d \in Devices, h \in Hosts : On(table', d, h) => On(table, d, h)
      /\ \A d \in Devices, h \in own : On(table', d, h) => h \in stale'
      /\ \A d \in Devices, h \in Hosts \ own : On(table, d, h) => On(table', d, h)
      /\ \A d \in Devices : table'[d] = {} => table[d] = {}
  <2>1. ASSUME NEW g \in own, NEW e \in Of(g), table' = Unlisted(e, g), UNCHANGED stale
        PROVE  /\ table' \in [Devices -> {NONE} \cup SUBSET Hosts] /\ stale' \subseteq Hosts
               /\ stale \subseteq stale'
               /\ \A d \in Devices, h \in Hosts : On(table', d, h) => On(table, d, h)
               /\ \A d \in Devices, h \in own : On(table', d, h) => h \in stale'
               /\ \A d \in Devices, h \in Hosts \ own : On(table, d, h) => On(table', d, h)
               /\ \A d \in Devices : table'[d] = {} => table[d] = {}
    <3>1. g \in Hosts /\ e \in Devices /\ On(table, e, g)
      BY <1>3, <1>4
    <3>2. /\ table' \in [Devices -> {NONE} \cup SUBSET Hosts]
          /\ \A d \in Devices, h \in Hosts :
                On(table', d, h) <=> On(table, d, h) /\ ~ (d = e /\ h = g)
          /\ \A d \in Devices : table'[d] = {} => table[d] = {}
      BY <3>1, <2>1, UnlistedFacts
    <3>3. \A d \in Devices : On(table, d, g) => d = e
      BY <3>1 DEF HInv, Listing
    <3> QED BY <3>1, <3>2, <3>3, <2>1, <1>3, <1>5, <1>6
  <2>2. CASE (\A h \in own : Of(h) = {}) /\ UNCHANGED <<table, stale>>
    BY <2>2, <1>3, <1>4, <1>5
  <2>3. CASE stale' = stale \cup own /\ UNCHANGED table
    BY <2>3, <1>3, <1>5
  <2> QED BY <1>1, <2>1, <2>2, <2>3
<1>8. /\ md_requests' \in Seq(Keys)
      /\ Range(md_requests') = Range(md_requests) \ {k}
      /\ \A i, j \in DOMAIN md_requests' : md_requests'[i] = md_requests'[j] => i = j
  <2>1. PICK r \in Seq(Keys) :
          /\ r = Uncached(k)
          /\ Range(r) = Range(md_requests) \ {k}
          /\ \A i, j \in DOMAIN r : r[i] = r[j] => i = j
    BY <1>5, UncachedFacts DEF HInv, CacheIsOfMatched
  <2> QED BY <2>1, <1>2, Zenon
<1>9. Written'
  <2>1. failures' \in 0 .. MaxFailures
    BY <1>1, CallFailsFacts
  <2>2. cachedHost' \in [Keys -> Hosts \cup {NONE}] /\ emptied' \subseteq Devices
    BY <1>2 DEF DevicesTypeOK
  <2> QED BY <2>1, <2>2, <1>2, <1>5, <1>7, <1>8 DEF Written
<1>10. OneHost'
  BY <1>2 DEF HInv, OneHost
<1>11. Hostless'
  BY <1>2, <1>8 DEF HInv, Hostless
<1>12. Listing'
  BY <1>2, <1>3, <1>7 DEF HInv, Listing
<1>13. Coming'
  <2>1. SUFFICES ASSUME NEW l \in matched' \ missed', NEW h \in Hosts, phys[h] = l
                 PROVE  \/ On(table', Identity[l], h)
                        \/ /\ l \in Range(md_requests')
                           /\ [host |-> h, to |-> l] \in Range(hevents)
    BY <1>2 DEF Coming
  <2>2. l \in matched \ missed /\ l # k /\ Identity[l] \in Devices /\ h \notin own
    BY <2>1, <1>2, <1>3, <1>5, IdentityFacts
  <2>3. \/ On(table, Identity[l], h)
        \/ l \in Range(md_requests) /\ [host |-> h, to |-> l] \in Range(hevents)
    BY <2>1, <2>2 DEF HInv, Coming
  <2> QED BY <2>2, <2>3, <1>7, <1>8
<1>14. CacheIsOfMatched'
  <2>1. Range(md_requests') \subseteq matched'
    BY <1>2, <1>8 DEF HInv, CacheIsOfMatched
  <2> QED BY <2>1, <1>8 DEF CacheIsOfMatched
<1>15. InstanceHasHost'
  BY <1>2, <1>7 DEF HInv, InstanceHasHost
<1> QED BY <1>2, <1>9, <1>10, <1>11, <1>12, <1>13, <1>14, <1>15 DEF HInv

\* cwmp_plugin_manageable_query: the events that wait behind still lead to the
\* devices that match.
LEMMA QueryKeepsDInv ==
    ASSUME DInv, ManageableQuery
    PROVE  DInv'
<1>1. /\ gevents \in Seq(GEvents) /\ gevents # <<>> /\ gevents' = Tail(gevents)
      /\ UNCHANGED <<phys, active, stage, hevents, flips>>
  BY DEF ManageableQuery, DInv, DevicesTypeOK
<1>2. PICK e \in GEvents : e = Head(gevents)
  BY <1>1, RangeTail
<1>3. IF e.action = "start" THEN StartMatching(e.key) ELSE StopMatching(e.key)
  BY <1>2, Zenon DEF ManageableQuery
<1>4. stage = "on" /\ Turns(gevents, matched, active)
  BY <1>1 DEF DInv, EventsLead
<1>5. PICK z \in SUBSET Keys : Turn(matched, e, z) /\ Turns(Tail(gevents), z, active)
  BY <1>1, <1>2, <1>4, TurnsTail
<1>6. e.key \in Keys
  BY DEF GEvents
<1>7. Written' /\ HInv' /\ matched' = z
  <2>1. CASE e.action = "start"
    <3>1. e.key \notin matched /\ z = matched \cup {e.key}
      BY <1>5, <2>1 DEF Turn
    <3> QED BY <3>1, <2>1, <1>1, <1>3, <1>6, StartMatchingKeepsHInv DEF DInv
  <2>2. CASE e.action # "start"
    <3>1. z = matched \ {e.key}
      BY <1>5, <2>2 DEF Turn
    <3> QED BY <3>1, <2>2, <1>1, <1>3, <1>6, StopMatchingKeepsHInv DEF DInv
  <2> QED BY <2>1, <2>2
<1>8. Tail(gevents) \in Seq(GEvents)
  BY <1>1, RangeTail
<1>9. DevicesTypeOK'
  BY <1>1, <1>7, <1>8 DEF Written, DInv, DevicesTypeOK
<1>10. EventsLead'
  BY <1>1, <1>4, <1>5, <1>7, Zenon DEF EventsLead
<1> QED BY <1>7, <1>9, <1>10 DEF DInv

\* cwmp_plugin_host_phys_changed.
LEMMA PhysChangedKeepsDInv ==
    ASSUME DInv, HostPhysChanged
    PROVE  DInv'
<1>1. /\ hevents \in Seq(HEvents) /\ hevents # <<>> /\ hevents' = Tail(hevents)
      /\ UNCHANGED <<phys, active, stage, gevents, matched, stale, flips>>
  BY DEF HostPhysChanged, DInv, DevicesTypeOK
<1>2. PICK e \in HEvents : e = Head(hevents)
  BY <1>1, RangeTail
<1>3. e.host \in Hosts /\ e.to \in Keys /\ e = [host |-> e.host, to |-> e.to]
  BY DEF HEvents
<1>4. PICK g \in Hosts, k \in Keys : g = e.host /\ k = e.to
  BY <1>3
<1>5. /\ Tail(hevents) \in Seq(HEvents)
      /\ \A x \in Range(hevents) : x # e => x \in Range(Tail(hevents))
  BY <1>1, <1>2, RangeTail
<1> DEFINE tried == IF cachedHost[k] = NONE THEN g ELSE cachedHost[k]
<1>6. PICK x \in Hosts : x = tried
  BY DEF DInv, DevicesTypeOK
<1>7. \/ /\ k \in Range(md_requests) /\ phys[tried] = k
          /\ CallFails("none")
          /\ List(Identity[k], {tried})
          /\ Uncache(k)
          /\ missed' = missed \ {k}
       \/ /\ k \in Range(md_requests)
          /\ IF phys[tried] = k THEN CallFails("add") ELSE CallFails("none")
          /\ cachedHost' = [cachedHost EXCEPT ![k] = tried]
          /\ missed' = missed \cup {k}
          /\ UNCHANGED <<instances, md_requests>>
       \/ /\ k \notin Range(md_requests)
          /\ CallFails("none")
          /\ UNCHANGED <<instances, cache, missed>>
  BY <1>2, <1>4, Zenon DEF HostPhysChanged
<1> HIDE DEF tried
<1>8. \/ /\ k \in Range(md_requests) /\ phys[x] = k
         /\ CallFails("none")
         /\ table' = Listed(Identity[k], {x}) /\ emptied' = emptied \ {Identity[k]}
         /\ md_requests' = Uncached(k) /\ cachedHost' = [cachedHost EXCEPT ![k] = NONE]
         /\ missed' = missed \ {k}
      \/ /\ k \in Range(md_requests)
         /\ CallFails("add") \/ CallFails("none")
         /\ cachedHost' = [cachedHost EXCEPT ![k] = x]
         /\ missed' = missed \cup {k}
         /\ UNCHANGED <<table, emptied, md_requests>>
      \/ /\ k \notin Range(md_requests)
         /\ CallFails("none")
         /\ UNCHANGED <<table, emptied, md_requests, cachedHost, missed>>
  BY <1>6, <1>7, Zenon DEF List, Uncache, instances, cache
<1>9. failures' \in 0 .. MaxFailures
  BY <1>8, CallFailsFacts DEF DInv
<1>10. /\ table \in [Devices -> {NONE} \cup SUBSET Hosts] /\ md_requests \in Seq(Keys)
      /\ matched \subseteq Keys /\ missed \subseteq matched
      /\ Range(md_requests) \subseteq matched /\ Identity[k] \in Devices
  BY IdentityFacts DEF DInv, HInv, DevicesTypeOK, CacheIsOfMatched
<1>11. cachedHost' \in [Keys -> Hosts \cup {NONE}] /\ emptied' \subseteq Devices
  BY <1>8 DEF DInv, DevicesTypeOK
<1>12. EventsLead'
  BY <1>1, Zenon DEF DInv, EventsLead
<1>13. OneHost'
  BY <1>1 DEF DInv, HInv, OneHost
\* Other notifications stay on their way.
<1>14. ASSUME NEW h \in Hosts, NEW l \in Keys, <<h, l>> # <<g, k>>,
              [host |-> h, to |-> l] \in Range(hevents)
       PROVE  [host |-> h, to |-> l] \in Range(hevents')
  <2>1. [host |-> h, to |-> l] # e
    BY <1>3, <1>4, <1>14
  <2> QED BY <2>1, <1>1, <1>5, <1>14, Zenon
<1>15. CASE /\ k \in Range(md_requests) /\ phys[x] = k
            /\ table' = Listed(Identity[k], {x}) /\ emptied' = emptied \ {Identity[k]}
            /\ md_requests' = Uncached(k)
            /\ missed' = missed \ {k}
  <2>1. /\ table' \in [Devices -> {NONE} \cup SUBSET Hosts]
        /\ \A d \in Devices, h \in Hosts :
             On(table', d, h) <=> On(table, d, h) \/ (d = Identity[k] /\ h = x)
        /\ \A d \in Devices : table'[d] = {} => table[d] = {} /\ d # Identity[k]
    <3>1. PICK T \in SUBSET Hosts : T = {x} /\ T # {} /\ \A h : h \in T <=> h = x
      <4>1. {x} \in SUBSET Hosts /\ {x} # {} /\ \A h : h \in {x} <=> h = x
        OBVIOUS
      <4> QED BY <4>1, Zenon
    <3>2. PICK o \in Devices : o = Identity[k]
      BY <1>10
    <3>3. /\ Listed(o, T) \in [Devices -> {NONE} \cup SUBSET Hosts]
          /\ \A d \in Devices, h \in Hosts :
               On(Listed(o, T), d, h) <=> On(table, d, h) \/ (d = o /\ h \in T)
          /\ \A d \in Devices : Listed(o, T)[d] = {} /\ T # {} => table[d] = {} /\ d # o
      BY ListedFacts, Zenon DEF DInv
    <3>4. table' = Listed(o, T)
      BY <3>1, <3>2, <1>15, Zenon
    <3> QED BY <3>1, <3>2, <3>3, <3>4
  <2>2. /\ md_requests' \in Seq(Keys)
        /\ Range(md_requests') = Range(md_requests) \ {k}
        /\ \A i, j \in DOMAIN md_requests' : md_requests'[i] = md_requests'[j] => i = j
    <3>1. PICK r \in Seq(Keys) :
            /\ r = Uncached(k)
            /\ Range(r) = Range(md_requests) \ {k}
            /\ \A i, j \in DOMAIN r : r[i] = r[j] => i = j
      BY <1>10, UncachedFacts DEF DInv, HInv, CacheIsOfMatched
    <3> QED BY <3>1, <1>15, Zenon
  <2>3. DevicesTypeOK'
    BY <1>1, <1>5, <1>9, <1>10, <1>15, <1>11, <2>1, <2>2 DEF DInv, DevicesTypeOK
  <2>4. Hostless'
    <3>1. SUFFICES ASSUME NEW l \in matched \ missed', \A h \in Hosts : phys[h] # l
                   PROVE  l \in Range(md_requests')
      BY <1>1 DEF Hostless
    <3>2. l # k /\ l \in matched \ missed
      BY <3>1, <1>15
    <3> QED BY <3>1, <3>2, <2>2 DEF DInv, HInv, Hostless
  <2>5. Listing'
    <3>1. SUFFICES ASSUME NEW d \in Devices, NEW h \in Hosts, On(table', d, h)
                   PROVE  /\ phys[h] \in Keys /\ Identity[phys[h]] = d
                          /\ phys[h] \in matched \/ h \in stale
      BY <1>1 DEF Listing
    <3>2. CASE On(table, d, h)
      BY <3>2 DEF DInv, HInv, Listing
    <3>3. CASE d = Identity[k] /\ h = x
      <4>1. phys[x] = k /\ k \in matched
        BY <1>10, <1>15
      <4> QED BY <3>3, <4>1
    <3> QED BY <3>1, <3>2, <3>3, <2>1
  <2>6. CacheIsOfMatched'
    BY <1>1, <1>10, <2>2 DEF CacheIsOfMatched
  <2>7. Coming'
    <3>1. SUFFICES ASSUME NEW l \in matched \ missed', NEW h \in Hosts, phys[h] = l
                   PROVE  \/ On(table', Identity[l], h)
                          \/ /\ l \in Range(md_requests')
                             /\ [host |-> h, to |-> l] \in Range(hevents')
      BY <1>1 DEF Coming
    <3>2. CASE l = k
      <4>1. h = x
        BY <3>1, <3>2, <1>15 DEF DInv, HInv, OneHost
      <4> QED BY <4>1, <3>2, <1>10, <2>1
    <3>3. CASE l # k
      <4>1. l \in matched \ missed /\ l \in Keys /\ Identity[l] \in Devices
        BY <3>1, <3>3, <1>10, <1>15, IdentityFacts
      <4>2. \/ On(table, Identity[l], h)
            \/ l \in Range(md_requests) /\ [host |-> h, to |-> l] \in Range(hevents)
        BY <4>1, <3>1 DEF DInv, HInv, Coming
      <4> QED BY <4>1, <4>2, <3>3, <1>14, <2>1, <2>2
    <3> QED BY <3>2, <3>3
  <2>8. InstanceHasHost'
    BY <1>15, <2>1 DEF DInv, HInv, InstanceHasHost
  <2> QED BY <1>12, <1>13, <2>3, <2>4, <2>5, <2>6, <2>7, <2>8 DEF DInv, HInv
<1>16. CASE /\ UNCHANGED <<table, emptied, md_requests>>
            /\ \/ missed' = missed \cup {k} /\ k \in Range(md_requests)
               \/ missed' = missed /\ k \notin Range(md_requests)
  <2>1. missed \subseteq missed' /\ missed' \subseteq matched
    BY <1>10, <1>16
  <2>2. DevicesTypeOK'
    BY <1>1, <1>5, <1>9, <1>10, <1>16, <1>11, <2>1 DEF DInv, DevicesTypeOK
  <2>3. Hostless'
    BY <1>1, <1>16, <2>1 DEF DInv, HInv, Hostless
  <2>4. Listing' /\ CacheIsOfMatched' /\ InstanceHasHost'
    BY <1>1, <1>16 DEF DInv, HInv, Listing, CacheIsOfMatched, InstanceHasHost
  <2>5. Coming'
    <3>1. SUFFICES ASSUME NEW l \in matched \ missed', NEW h \in Hosts, phys[h] = l
                   PROVE  \/ On(table, Identity[l], h)
                          \/ /\ l \in Range(md_requests)
                             /\ [host |-> h, to |-> l] \in Range(hevents')
      BY <1>1, <1>16 DEF Coming
    <3>2. \/ On(table, Identity[l], h)
          \/ l \in Range(md_requests) /\ [host |-> h, to |-> l] \in Range(hevents)
      BY <3>1, <2>1 DEF DInv, HInv, Coming
    <3>3. CASE l \in Range(md_requests) /\ [host |-> h, to |-> l] \in Range(hevents)
      <4>1. <<h, l>> # <<g, k>>
        BY <3>1, <3>3, <1>16
      <4> QED BY <4>1, <3>1, <3>3, <1>10, <1>14
    <3> QED BY <3>2, <3>3
  <2> QED BY <1>12, <1>13, <2>2, <2>3, <2>4, <2>5 DEF DInv, HInv
<1> QED BY <1>8, <1>15, <1>16

LEMMA NextDInv == DInv /\ [DevicesNext]_deviceVars => DInv'
<1> SUFFICES ASSUME DInv, [DevicesNext]_deviceVars PROVE DInv'
  OBVIOUS
<1>1. CASE UNCHANGED deviceVars
  <2>1. UNCHANGED <<phys, active, stage, gevents, hevents, table, emptied, md_requests,
                    cachedHost, matched, missed, stale, flips, failures>>
    BY <1>1 DEF deviceVars, events, instances, cache
  <2>2. DevicesTypeOK'
    BY <2>1 DEF DInv, DevicesTypeOK
  <2>3. EventsLead'
    BY <2>1, Zenon DEF DInv, EventsLead
  <2>4. HInv'
    BY <2>1, HInvFrame DEF DInv
  <2> QED BY <2>2, <2>3, <2>4 DEF DInv
<1>2. ASSUME NEW k \in Keys, DeviceMatches(k) \/ DeviceLeaves(k) PROVE DInv'
  BY <1>2, FlipKeepsDInv
<1>3. ASSUME NEW h \in Hosts, HostDeleted(h) PROVE DInv'
  BY <1>3, HostDeletedKeepsDInv
<1>4. ASSUME NEW h \in Hosts, NEW k \in Keys, HostSet(h, k) PROVE DInv'
  BY <1>4, HostSetKeepsDInv
<1>5. CASE Subscribe \/ OpenQuery \/ GiveUp
  BY <1>5, StartKeepsDInv
<1>6. CASE ManageableQuery
  BY <1>6, QueryKeepsDInv
<1>7. CASE HostPhysChanged
  BY <1>7, PhysChangedKeepsDInv
<1>8. CASE PluginRestarts
  BY <1>8, RestartKeepsDInv
<1> QED BY <1>1, <1>2, <1>3, <1>4, <1>5, <1>6, <1>7, <1>8, Zenon DEF DevicesNext

LEMMA DInvImplies == DInv => DevicesTypeOK /\ OnlyMatching /\ HostIsListedOrComing
<1> SUFFICES ASSUME DInv PROVE DevicesTypeOK /\ OnlyMatching /\ HostIsListedOrComing
  OBVIOUS
<1>1. DevicesTypeOK /\ CacheIsOfMatched /\ InstanceHasHost
  BY DEF DInv, HInv
<1>2. ListedHostMatches
  <2>1. \A d \in Devices : table[d] # NONE => table[d] \subseteq Hosts
    BY <1>1 DEF DevicesTypeOK
  <2> QED BY <2>1, Zenon DEF DInv, HInv, Listing, On, ListedHostMatches
<1>3. HostIsListedOrComing
  BY Zenon DEF DInv, HInv, Coming, On, HostIsListedOrComing, HostsOf
<1> QED BY <1>1, <1>2, <1>3 DEF OnlyMatching

\* Whatever the order of the events of gMap and Hosts, the calls that fail and
\* the restarts of the plugin, the invariant holds.
THEOREM DevicesInvariance == DevicesSpec => []DInv
<1>1. DevicesInit => DInv
  BY InitDInv
<1>2. DInv /\ [DevicesNext]_deviceVars => DInv'
  BY NextDInv
<1> QED BY <1>1, <1>2, PTL DEF DevicesSpec

\* The table and the cache of the plugin hold hosts and devices, and what is
\* missed was known.
THEOREM DevicesTypeCorrect == DevicesSpec => []DevicesTypeOK
BY DevicesInvariance, DInvImplies, PTL

\* A host is in the instance of its own device only, and only while the device
\* matches or the call that should have removed it failed; an instance without
\* host is one whose last host was deleted; the cache holds no device twice and
\* none that stopped matching.
THEOREM OnlyMatchingDevices == DevicesSpec => []OnlyMatching
BY DevicesInvariance, DInvImplies, PTL

\* The host of a device the plugin was told of is listed, or the device is in
\* the cache and the notification that will list it is on its way, whichever
\* of the two services reported first, unless a call failed or a host of the
\* device was deleted (a Host left in the cache included).
THEOREM HostsListedOrComing ==
    DevicesSpec => []HostIsListedOrComing
BY DevicesInvariance, DInvImplies, PTL

=============================================================================
