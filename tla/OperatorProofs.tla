--------------------------- MODULE OperatorProofs ---------------------------
(***************************************************************************)
(* What the operators of the model do with lists, channels, actions and    *)
(* identifiers, and facts about the game logic that several proofs use.    *)
(***************************************************************************)
EXTENDS Netorcai, SequenceTheorems, TLAPS

\* Some leaves are large: the provers get more time than by default.
USE ZenonT(20), SMTT(40)
USE DEF gsVars, connVars, pvVars, chanVars, glVars, mainVars, vars

-----------------------------------------------------------------------------
(* Lists of clients.                                                       *)

\* KickLoggedPlayerOrVisu shortens a list that holds the client by one.
LEMMA SwapRemoveType ==
  ASSUME NEW S, NEW s \in Seq(S), NEW c
  PROVE  SwapRemove(s, c) \in Seq(S)
<1>1. CASE c \notin Elems(s)
  BY <1>1 DEF SwapRemove
<1>2. CASE c \in Elems(s)
  <2> DEFINE n == Len(s) - 1
             i == CHOOSE j \in DOMAIN s : s[j] = c
             f == [j \in 1 .. n |-> IF j = i THEN s[Len(s)] ELSE s[j]]
  <2>1. n \in Nat /\ Len(s) \in 1 .. Len(s) /\ DOMAIN s = 1 .. Len(s)
    BY <1>2, LenProperties, SMTT(40) DEF Elems
  <2>2. f \in [1 .. n -> S]
    BY <2>1, ElementOfSeq, SMTT(40)
  <2>3. f \in Seq(S)
    BY <2>1, <2>2, SeqDef, SMTT(40)
  <2> QED BY <1>2, <2>3 DEF SwapRemove
<1> QED BY <1>1, <1>2

\* The elements of two lists put end to end, as in allPlayers.
LEMMA ElemsConcat ==
  ASSUME NEW S, NEW s \in Seq(S), NEW t \in Seq(S)
  PROVE  Elems(s \o t) = Elems(s) \cup Elems(t)
<1>1. /\ Len(s \o t) = Len(s) + Len(t)
      /\ Len(s) \in Nat /\ Len(t) \in Nat
      /\ DOMAIN s = 1 .. Len(s) /\ DOMAIN t = 1 .. Len(t)
      /\ DOMAIN (s \o t) = 1 .. Len(s) + Len(t)
      /\ \A i \in 1 .. Len(s) + Len(t) :
           (s \o t)[i] = IF i <= Len(s) THEN s[i] ELSE t[i - Len(s)]
  BY LenProperties, ConcatProperties, SMTT(40)
<1>2. ASSUME NEW x \in Elems(s \o t)
      PROVE  x \in Elems(s) \cup Elems(t)
  <2>1. PICK i \in 1 .. Len(s) + Len(t) : x = (s \o t)[i]
    BY <1>1, <1>2 DEF Elems
  <2>2. CASE i <= Len(s)
    BY <1>1, <2>1, <2>2, SMTT(40) DEF Elems
  <2>3. CASE ~(i <= Len(s))
    <3>1. i - Len(s) \in 1 .. Len(t) /\ x = t[i - Len(s)]
      BY <1>1, <2>1, <2>3
    <3> QED BY <1>1, <3>1 DEF Elems
  <2> QED BY <2>2, <2>3
<1>3. ASSUME NEW i \in DOMAIN s
      PROVE  s[i] \in Elems(s \o t)
  <2>1. i \in 1 .. Len(s) + Len(t) /\ s[i] = (s \o t)[i]
    BY <1>1, <1>3
  <2> QED BY <1>1, <2>1 DEF Elems
<1>4. ASSUME NEW i \in DOMAIN t
      PROVE  t[i] \in Elems(s \o t)
  <2>1. i + Len(s) \in 1 .. Len(s) + Len(t) /\ t[i] = (s \o t)[i + Len(s)]
    BY <1>1, <1>4
  <2> QED BY <1>1, <2>1 DEF Elems
<1> QED BY <1>2, <1>3, <1>4, ZenonT(40) DEF Elems

\* A client that joins a list that does not hold it.
LEMMA AppendList ==
  ASSUME NEW s \in Seq(Client), NEW c \in Client
  PROVE  /\ Append(s, c) \in Seq(Client)
         /\ Len(Append(s, c)) = Len(s) + 1
         /\ Elems(Append(s, c)) = Elems(s) \cup {c}
         /\ c \notin Elems(s) /\ NoDuplicates(s) => NoDuplicates(Append(s, c))
<1> DEFINE t == Append(s, c)
<1>1. /\ t \in Seq(Client) /\ Len(t) = Len(s) + 1
      /\ DOMAIN s = 1 .. Len(s) /\ DOMAIN t = 1 .. Len(s) + 1
      /\ Len(s) \in Nat
      /\ \A i \in 1 .. Len(s) : t[i] = s[i]
      /\ t[Len(s) + 1] = c
  BY AppendProperties, LenProperties, SMTT(40)
<1> HIDE DEF t
<1>2. Elems(t) \subseteq Elems(s) \cup {c}
  <2> SUFFICES ASSUME NEW i \in 1 .. Len(s) + 1 PROVE t[i] \in Elems(s) \cup {c}
    BY <1>1 DEF Elems
  <2>1. CASE i = Len(s) + 1
    BY <1>1, <2>1
  <2>2. CASE i # Len(s) + 1
    <3>1. i \in 1 .. Len(s)
      BY <1>1, <2>2
    <3> QED BY <1>1, <3>1 DEF Elems
  <2> QED BY <2>1, <2>2
<1>3. Elems(s) \cup {c} \subseteq Elems(t)
  <2>1. c \in Elems(t)
    <3>1. Len(s) + 1 \in 1 .. Len(s) + 1
      BY <1>1
    <3> QED BY <1>1, <3>1 DEF Elems
  <2>2. ASSUME NEW i \in 1 .. Len(s) PROVE s[i] \in Elems(t)
    <3>1. i \in 1 .. Len(s) + 1
      BY <1>1
    <3> QED BY <1>1, <3>1 DEF Elems
  <2> QED BY <1>1, <2>1, <2>2 DEF Elems
<1>4. ASSUME c \notin Elems(s), NoDuplicates(s)
      PROVE  NoDuplicates(t)
  <2> SUFFICES ASSUME NEW i \in 1 .. Len(s) + 1, NEW j \in 1 .. Len(s) + 1,
                      t[i] = t[j]
               PROVE  i = j
    BY <1>1 DEF NoDuplicates
  <2>1. \A k \in 1 .. Len(s) : s[k] # c
    BY <1>1, <1>4 DEF Elems
  <2>2. \A k \in 1 .. Len(s) + 1 : k \in 1 .. Len(s) \/ k = Len(s) + 1
    BY <1>1
  <2> QED BY <1>1, <1>4, <2>1, <2>2 DEF NoDuplicates
<1> QED BY <1>1, <1>2, <1>3, <1>4 DEF t

\* Swapping with the last element and shortening removes one client only.
LEMMA SwapRemoveList ==
  ASSUME NEW s \in Seq(Client), NoDuplicates(s), NEW c \in Client
  PROVE  /\ Elems(SwapRemove(s, c)) = Elems(s) \ {c}
         /\ NoDuplicates(SwapRemove(s, c))
<1>1. CASE c \notin Elems(s)
  BY <1>1 DEF SwapRemove
<1>2. CASE c \in Elems(s)
  <2> DEFINE n == Len(s)
             i == CHOOSE j \in DOMAIN s : s[j] = c
             t == [j \in 1 .. n - 1 |-> IF j = i THEN s[n] ELSE s[j]]
  <2>1. n \in Nat \ {0} /\ DOMAIN s = 1 .. n
    BY <1>2, LenProperties, SMTT(40) DEF Elems
  <2>2. i \in 1 .. n /\ s[i] = c
    BY <1>2, <2>1 DEF Elems
  <2>3. \A j, k \in 1 .. n : s[j] = s[k] => j = k
    BY <2>1 DEF NoDuplicates
  <2>4. DOMAIN t = 1 .. n - 1
        /\ \A j \in 1 .. n - 1 : t[j] = IF j = i THEN s[n] ELSE s[j]
    OBVIOUS
  <2>5. SwapRemove(s, c) = t
    BY <1>2 DEF SwapRemove
  <2> HIDE DEF n, i, t
  <2>6. NoDuplicates(t)
    BY <2>1, <2>2, <2>3, <2>4, SMTT(40) DEF NoDuplicates
  <2>7. Elems(t) \subseteq Elems(s) \ {c}
    <3> SUFFICES ASSUME NEW j \in 1 .. n - 1
                 PROVE  t[j] \in Elems(s) /\ t[j] # c
      BY <2>4 DEF Elems
    <3> QED BY <2>1, <2>2, <2>3, <2>4, SMTT(40) DEF Elems
  <2>8. Elems(s) \ {c} \subseteq Elems(t)
    <3> SUFFICES ASSUME NEW j \in 1 .. n, s[j] # c
                 PROVE  \E k \in 1 .. n - 1 : t[k] = s[j]
      BY <2>1, <2>4, SMTT(40) DEF Elems
    <3>1. CASE j = n
      BY <2>1, <2>2, <2>4, <3>1, SMTT(40)
    <3>2. CASE j # n
      BY <2>1, <2>2, <2>4, <3>2, SMTT(40)
    <3> QED BY <3>1, <3>2
  <2> QED BY <2>5, <2>6, <2>7, <2>8
<1> QED BY <1>1, <1>2

\* A broadcast reaches the clients of its list one after the other.
LEMMA TailList ==
  ASSUME NEW s \in Seq(Client), s # <<>>, NoDuplicates(s)
  PROVE  /\ Head(s) \in Elems(s) /\ NoDuplicates(Tail(s))
         /\ Elems(Tail(s)) = Elems(s) \ {Head(s)}
<1>1. /\ 1 \in DOMAIN s /\ Head(s) = s[1]
      /\ DOMAIN s \subseteq Int
      /\ \A i \in DOMAIN Tail(s) : /\ i \in Int /\ i + 1 \in DOMAIN s
                                   /\ i + 1 # 1 /\ Tail(s)[i] = s[i + 1]
      /\ \A i \in DOMAIN s : i # 1 => /\ i - 1 \in DOMAIN Tail(s)
                                      /\ Tail(s)[i - 1] = s[i]
  OBVIOUS
<1>2. Head(s) \in Elems(s)
  BY <1>1 DEF Elems
<1>3. ASSUME NEW i \in DOMAIN Tail(s), NEW j \in DOMAIN Tail(s),
             Tail(s)[i] = Tail(s)[j]
      PROVE  i = j
  <2>1. i + 1 = j + 1
    BY <1>1, <1>3, SMTT(40) DEF NoDuplicates
  <2> QED BY <1>1, <2>1, SMTT(40)
<1>4. ASSUME NEW c \in Elems(Tail(s))
      PROVE  c \in Elems(s) \ {Head(s)}
  <2>1. PICK i \in DOMAIN Tail(s) : c = Tail(s)[i]
    BY <1>4 DEF Elems
  <2>2. i + 1 \in DOMAIN s /\ i + 1 # 1 /\ c = s[i + 1]
    BY <1>1, <2>1
  <2>3. s[i + 1] # s[1]
    BY <1>1, <2>2 DEF NoDuplicates
  <2> QED BY <1>1, <2>2, <2>3 DEF Elems
<1>5. ASSUME NEW c \in Elems(s) \ {Head(s)}
      PROVE  c \in Elems(Tail(s))
  <2>1. PICK i \in DOMAIN s : c = s[i] /\ i # 1
    BY <1>1, <1>5 DEF Elems
  <2> QED BY <1>1, <2>1 DEF Elems
<1>6. NoDuplicates(Tail(s))
  BY <1>3 DEF NoDuplicates
<1>7. Elems(Tail(s)) = Elems(s) \ {Head(s)}
  BY <1>4, <1>5
<1> QED BY <1>2, <1>6, <1>7

\* The copied lists of clients together have the clients of each.
LEMMA ClientsConcat ==
  ASSUME NEW s \in Seq(Client), NEW t \in Seq(Client)
  PROVE  Elems(s \o t) = Elems(s) \cup Elems(t)
BY ElemsConcat, SMTT(40)

\* Lists of different roles have no client in common.
LEMMA ConcatDistinct ==
  ASSUME NEW s \in Seq(Client), NEW t \in Seq(Client), NoDuplicates(s),
         NoDuplicates(t), Elems(s) \cap Elems(t) = {}
  PROVE  NoDuplicates(s \o t)
<1> DEFINE u == s \o t
<1>1. \A i \in DOMAIN u :
        \/ i \in DOMAIN s /\ u[i] = s[i] /\ i <= Len(s)
        \/ i - Len(s) \in DOMAIN t /\ u[i] = t[i - Len(s)] /\ i > Len(s)
  OBVIOUS
<1>2. DOMAIN u \subseteq Int /\ Len(s) \in Int
  OBVIOUS
<1> HIDE DEF u
<1>3. ASSUME NEW i \in DOMAIN u, NEW j \in DOMAIN u, u[i] = u[j]
      PROVE  i = j
  <2>1. CASE /\ i \in DOMAIN s /\ u[i] = s[i]
             /\ j \in DOMAIN s /\ u[j] = s[j]
    BY <1>3, <2>1 DEF NoDuplicates
  <2>2. CASE /\ i - Len(s) \in DOMAIN t /\ u[i] = t[i - Len(s)]
             /\ j - Len(s) \in DOMAIN t /\ u[j] = t[j - Len(s)]
    <3>1. i - Len(s) = j - Len(s)
      BY <1>3, <2>2 DEF NoDuplicates
    <3> QED BY <1>2, <3>1
  <2>3. ASSUME NEW a \in DOMAIN s, NEW b \in DOMAIN t
        PROVE  s[a] # t[b]
    BY DEF Elems
  <2> QED BY <1>1, <1>3, <2>1, <2>2, <2>3
<1> QED BY <1>3 DEF NoDuplicates, u

\* The parts of a list without duplicates.
LEMMA PartsDistinct ==
  ASSUME NEW s \in Seq(Client), NEW t \in Seq(Client), NoDuplicates(s \o t)
  PROVE  /\ NoDuplicates(s) /\ NoDuplicates(t)
         /\ Elems(s) \cap Elems(t) = {}
<1> DEFINE u == s \o t
<1>1. /\ \A i \in DOMAIN s : i \in DOMAIN u /\ u[i] = s[i] /\ i \in Int
                             /\ i <= Len(s)
      /\ \A i \in DOMAIN t : i + Len(s) \in DOMAIN u /\ u[i + Len(s)] = t[i]
                             /\ i \in Int /\ i >= 1
      /\ Len(s) \in Nat
  BY SMT
<1> HIDE DEF u
<1>2. NoDuplicates(u)
  BY DEF u
<1>3. NoDuplicates(s)
  BY <1>1, <1>2 DEF NoDuplicates
<1>4. NoDuplicates(t)
  <2> SUFFICES ASSUME NEW i \in DOMAIN t, NEW j \in DOMAIN t, t[i] = t[j]
               PROVE  i = j
    BY DEF NoDuplicates
  <2>1. i + Len(s) = j + Len(s)
    BY <1>1, <1>2 DEF NoDuplicates
  <2> QED BY <1>1, <2>1, SMT
<1>5. ASSUME NEW i \in DOMAIN s, NEW j \in DOMAIN t
      PROVE  s[i] # t[j]
  <2>1. i # j + Len(s)
    BY <1>1, SMT
  <2> QED BY <1>1, <1>2, <2>1 DEF NoDuplicates
<1> QED BY <1>3, <1>4, <1>5 DEF Elems

\* Where a client is in a list.
LEMMA IndexOfIs ==
  ASSUME NEW s \in Seq(Client)
  PROVE  /\ \A c \in Elems(s) : /\ IndexOf(s, c) \in 1 .. Len(s)
                                /\ s[IndexOf(s, c)] = c
         /\ NoDuplicates(s) => \A i \in 1 .. Len(s) :
              s[i] \in Elems(s) /\ IndexOf(s, s[i]) = i
<1>1. DOMAIN s = 1 .. Len(s)
  BY LenProperties
<1>2. ASSUME NEW c \in Elems(s)
      PROVE  IndexOf(s, c) \in DOMAIN s /\ s[IndexOf(s, c)] = c
  <2>1. \E i \in DOMAIN s : s[i] = c
    BY DEF Elems
  <2> QED BY <2>1 DEF IndexOf
<1>3. ASSUME NEW i \in DOMAIN s
      PROVE  s[i] \in Elems(s)
  BY DEF Elems
<1> QED BY <1>1, <1>2, <1>3 DEF NoDuplicates

-----------------------------------------------------------------------------
(* Channels and actions.                                                   *)

\* What a channel of capacity 1 holds.
LEMMA ChannelElems ==
  ASSUME NEW S
  PROVE  /\ Elems(<<>>) = {}
         /\ \A a \in S : Elems(Append(<<>>, a)) = {a}
         /\ \A q \in Seq(S) : Len(q) <= 1 /\ q # <<>> =>
              /\ Head(q) \in S /\ Elems(q) = {Head(q)}
              /\ Elems(Tail(q)) = {} /\ Tail(q) = <<>>
<1>1. Elems(<<>>) = {}
  BY DEF Elems
<1>2. ASSUME NEW a \in S
      PROVE  Elems(Append(<<>>, a)) = {a}
  BY DEF Elems
<1>3. ASSUME NEW q \in Seq(S), Len(q) <= 1, q # <<>>
      PROVE  /\ Head(q) \in S /\ Elems(q) = {Head(q)}
             /\ Elems(Tail(q)) = {} /\ Tail(q) = <<>>
  <2>1. Len(q) \in Nat /\ DOMAIN q = 1 .. Len(q) /\ Len(q) # 0
    BY <1>3, EmptySeq, LenProperties
  <2>2. Len(q) = 1
    BY <1>3, <2>1, SMT
  <2>3. DOMAIN q = {1}
    BY <2>1, <2>2, SMT
  <2>4. /\ Head(q) = q[1] /\ Head(q) \in S
        /\ Tail(q) \in Seq(S) /\ Len(Tail(q)) = Len(q) - 1
    BY <1>3, HeadTailProperties, SMTT(40)
  <2>5. Len(Tail(q)) = 0
    BY <2>2, <2>4, SMT
  <2>6. Tail(q) = <<>>
    BY <2>4, <2>5, EmptySeq
  <2> QED BY <1>1, <2>3, <2>4, <2>6 DEF Elems
<1> QED BY <1>1, <1>2, <1>3

\* The actions collected in timers mode stay a list of actions.
LEMMA PlaceActionType ==
  ASSUME NEW s \in Seq(Action), NEW a \in Action
  PROVE  PlaceAction(s, a) \in Seq(Action)
<1>1. CASE ~Kept(s, a)
  BY <1>1, AppendProperties DEF PlaceAction
<1>2. CASE Kept(s, a)
  <2> DEFINE k == CHOOSE i \in DOMAIN s :
                    s[i].id = a.id /\ \A j \in 1 .. i - 1 : s[j].id # a.id
             f == [i \in DOMAIN s |-> IF i = Len(s) THEN a
                              ELSE IF i = k THEN s[Len(s)] ELSE s[i]]
  <2>1. Len(s) \in Nat /\ DOMAIN s = 1 .. Len(s) /\ Len(s) \in DOMAIN s
    BY <1>2, LenProperties, SMTT(40) DEF Kept
  <2>2. f \in [1 .. Len(s) -> Action]
    BY <2>1, ElementOfSeq
  <2>3. f \in Seq(Action)
    BY <2>1, <2>2, SeqDef, SMTT(40)
  <2> QED BY <1>2, <2>3 DEF PlaceAction
<1> QED BY <1>1, <1>2

\* One action of each player at most.
OneEach(s) == \A i, j \in DOMAIN s : s[i].id = s[j].id => i = j

\* An action of a player that has none yet is appended.
LEMMA AppendedAction ==
  ASSUME NEW s \in Seq(Action), NEW a \in Action
  PROVE  /\ Elems(Append(s, a)) = Elems(s) \cup {a}
         /\ OneEach(s) /\ (\A b \in Elems(s) : b.id # a.id)
              => OneEach(Append(s, a))
<1> DEFINE t == Append(s, a)
<1>1. /\ DOMAIN s = 1 .. Len(s) /\ DOMAIN t = 1 .. Len(s) + 1
      /\ Len(s) \in Nat
      /\ \A i \in 1 .. Len(s) : t[i] = s[i]
      /\ t[Len(s) + 1] = a
  BY LenProperties, AppendProperties, SMTT(40)
<1> HIDE DEF t
<1>2. \A i \in DOMAIN t : i = Len(s) + 1 \/ i \in DOMAIN s
  BY <1>1, SMT
<1>3. DOMAIN s \subseteq DOMAIN t /\ Len(s) + 1 \in DOMAIN t
  BY <1>1, SMT
<1>4. Elems(t) = Elems(s) \cup {a}
  <2>1. ASSUME NEW x \in Elems(t)
        PROVE  x \in Elems(s) \cup {a}
    BY <1>1, <1>2 DEF Elems
  <2>2. ASSUME NEW x \in Elems(s) \cup {a}
        PROVE  x \in Elems(t)
    BY <1>1, <1>3 DEF Elems
  <2> QED BY <2>1, <2>2
<1>5. ASSUME OneEach(s), \A b \in Elems(s) : b.id # a.id
      PROVE  OneEach(t)
  <2> SUFFICES ASSUME NEW i \in DOMAIN t, NEW j \in DOMAIN t, t[i].id = t[j].id
               PROVE  i = j
    BY DEF OneEach
  <2>1. \A k \in DOMAIN s : t[k] = s[k] /\ s[k].id # a.id
    BY <1>1, <1>5 DEF Elems
  <2> QED BY <1>1, <1>2, <1>5, <2>1 DEF OneEach
<1> QED BY <1>4, <1>5 DEF t

\* An action that takes the place of an earlier one of the same player.
LEMMA PlaceActionOneEach ==
  ASSUME NEW s \in Seq(Action), NEW a \in Action, OneEach(s)
  PROVE  OneEach(PlaceAction(s, a))
<1>0. Len(s) \in Nat /\ DOMAIN s = 1 .. Len(s)
  BY LenProperties
<1>1. CASE ~Kept(s, a)
  <2> DEFINE t == Append(s, a)
  <2>1. /\ DOMAIN t = 1 .. Len(s) + 1
        /\ \A i \in 1 .. Len(s) : t[i] = s[i]
        /\ t[Len(s) + 1] = a
    BY <1>0, AppendProperties, SMTT(40)
  <2>2. PlaceAction(s, a) = t
    BY <1>1 DEF PlaceAction
  <2> HIDE DEF t
  <2>3. OneEach(t)
    BY <1>0, <1>1, <2>1, SMTT(40) DEF OneEach, Kept
  <2> QED BY <2>2, <2>3
<1>2. CASE Kept(s, a)
  <2> DEFINE k == CHOOSE i \in DOMAIN s :
                    s[i].id = a.id /\ \A j \in 1 .. i - 1 : s[j].id # a.id
             f == [i \in DOMAIN s |-> IF i = Len(s) THEN a
                              ELSE IF i = k THEN s[Len(s)] ELSE s[i]]
  <2>1. PlaceAction(s, a) = f
    BY <1>2 DEF PlaceAction
  <2>2. k \in DOMAIN s /\ s[k].id = a.id
    <3>1. PICK m \in DOMAIN s : s[m].id = a.id
      BY <1>2 DEF Kept
    <3>2. \A j \in 1 .. m - 1 : s[j].id # a.id
      BY <1>0, <3>1, SMTT(40) DEF OneEach
    <3> QED BY <3>1, <3>2
  <2>3. Len(s) \in DOMAIN s
    BY <1>0, <2>2, SMTT(40)
  <2> HIDE DEF k
  <2>4. OneEach(f)
    BY <2>2, <2>3, SMTT(40) DEF OneEach
  <2> QED BY <2>1, <2>4
<1> QED BY <1>1, <1>2

-----------------------------------------------------------------------------
(* Identifiers of players.                                                 *)

Players == Elems(AllPlayers)

\* What the identifiers of the game logic are drawn from.
LEMMA AssignedIDType ==
  ASSUME snap.players \in Seq(Client), snap.specialPlayers \in Seq(Client),
         NEW perm \in Perm(Len(snap.players)),
         NEW c \in Elems(AllPlayers)
  PROVE  AssignedID(c, perm) \in Int
<1> DEFINE p == snap.players
           q == snap.specialPlayers
<1>1. DOMAIN p = 1 .. Len(p) /\ Len(p) \in Nat /\ DOMAIN q = 1 .. Len(q)
      /\ Len(q) \in Nat
  BY LenProperties
<1>2. CASE c \in Elems(q)
  <2>1. IndexOf(q, c) \in DOMAIN q
    BY <1>2 DEF IndexOf, Elems
  <2> QED BY <1>1, <1>2, <2>1 DEF AssignedID
<1>3. CASE c \notin Elems(q)
  <2>1. c \in Elems(p)
    BY <1>3, ElemsConcat, SMTT(40) DEF AllPlayers
  <2>2. IndexOf(p, c) \in DOMAIN p
    BY <2>1 DEF IndexOf, Elems
  <2> QED BY <1>1, <1>3, <2>2, SMTT(40) DEF AssignedID, Perm, Bijection, Surjection
<1> QED BY <1>2, <1>3

\* The identifiers that GLAssignIDs gives: each of 0 .. n - 1 to one player.
LEMMA AssignedIDs ==
  ASSUME snap.players \in Seq(Client), snap.specialPlayers \in Seq(Client),
         NoDuplicates(AllPlayers), NEW perm \in Perm(Len(snap.players))
  PROVE  /\ \A c \in Players : AssignedID(c, perm) \in 0 .. Len(AllPlayers) - 1
         /\ \A i \in 0 .. Len(AllPlayers) - 1 :
              \E c \in Players : AssignedID(c, perm) = i
         /\ \A c, d \in Players : AssignedID(c, perm) = AssignedID(d, perm)
              => c = d
<1> DEFINE p == snap.players
           q == snap.specialPlayers
           id(c) == AssignedID(c, perm)
<1>1. /\ p \in Seq(Client) /\ q \in Seq(Client)
      /\ Len(p) \in Nat /\ Len(q) \in Nat
      /\ Len(AllPlayers) = Len(p) + Len(q)
      /\ Players = Elems(p) \cup Elems(q)
  BY ElemsConcat, LenProperties, ConcatProperties, SMTT(40) DEF AllPlayers, Players
<1>2. NoDuplicates(p) /\ NoDuplicates(q) /\ Elems(p) \cap Elems(q) = {}
  BY PartsDistinct DEF AllPlayers
<1>3. /\ \A c \in Elems(q) : id(c) = IndexOf(q, c) - 1
      /\ \A c \in Elems(p) : id(c) = perm[IndexOf(p, c)] + Len(q)
  BY <1>2 DEF AssignedID
<1>4. /\ \A i \in 1 .. Len(p) : perm[i] \in 0 .. Len(p) - 1
      /\ \A i, j \in 1 .. Len(p) : perm[i] = perm[j] => i = j
  BY <1>1 DEF Perm, Bijection, Injection, IsInjective
<1>5. /\ \A c \in Elems(p) : IndexOf(p, c) \in 1 .. Len(p) /\ p[IndexOf(p, c)] = c
      /\ \A c \in Elems(q) : IndexOf(q, c) \in 1 .. Len(q) /\ q[IndexOf(q, c)] = c
      /\ \A i \in 1 .. Len(p) : p[i] \in Elems(p) /\ IndexOf(p, p[i]) = i
      /\ \A i \in 1 .. Len(q) : q[i] \in Elems(q) /\ IndexOf(q, q[i]) = i
  BY <1>1, <1>2, IndexOfIs
<1>6. \A k \in 0 .. Len(p) - 1 : \E i \in 1 .. Len(p) : perm[i] = k
  BY <1>1 DEF Perm, Bijection, Surjection
<1> DEFINE P(c) == IndexOf(p, c)
           Q(c) == IndexOf(q, c)
<1> HIDE DEF p, q, id, P, Q
<1>7. \A c \in Elems(q) : id(c) = Q(c) - 1 /\ Q(c) \in 1 .. Len(q)
  BY <1>3, <1>5 DEF Q
<1>8. \A c \in Elems(p) : /\ id(c) = perm[P(c)] + Len(q)
                          /\ P(c) \in 1 .. Len(p) /\ perm[P(c)] \in 0 .. Len(p) - 1
  BY <1>3, <1>4, <1>5 DEF P
<1>9. ASSUME NEW c \in Players
      PROVE  id(c) \in 0 .. Len(AllPlayers) - 1
  <2>1. CASE c \in Elems(q)
    <3>1. id(c) = Q(c) - 1 /\ Q(c) \in 1 .. Len(q)
      BY <1>7, <2>1
    <3> QED BY <1>1, <3>1, SMT
  <2>2. CASE c \in Elems(p)
    <3>1. id(c) = perm[P(c)] + Len(q) /\ perm[P(c)] \in 0 .. Len(p) - 1
      BY <1>8, <2>2
    <3> QED BY <1>1, <3>1, SMT
  <2> QED BY <1>1, <2>1, <2>2
<1>10. ASSUME NEW i \in 0 .. Len(AllPlayers) - 1
       PROVE  \E c \in Players : id(c) = i
  <2>1. CASE i < Len(q)
    <3>1. i + 1 \in 1 .. Len(q) /\ i + 1 - 1 = i
      BY <1>1, <2>1, SMT
    <3>2. q[i + 1] \in Elems(q) /\ Q(q[i + 1]) = i + 1
      BY <1>5, <3>1 DEF Q
    <3>3. id(q[i + 1]) = i
      BY <1>7, <3>1, <3>2
    <3> QED BY <1>1, <3>2, <3>3
  <2>2. CASE ~(i < Len(q))
    <3>1. i - Len(q) \in 0 .. Len(p) - 1 /\ i - Len(q) + Len(q) = i
      BY <1>1, <2>2, SMT
    <3>2. PICK k \in 1 .. Len(p) : perm[k] = i - Len(q)
      BY <1>6, <3>1
    <3>3. p[k] \in Elems(p) /\ P(p[k]) = k
      BY <1>5 DEF P
    <3>4. id(p[k]) = i
      BY <1>8, <3>1, <3>2, <3>3
    <3> QED BY <1>1, <3>3, <3>4
  <2> QED BY <2>1, <2>2
<1>11. ASSUME NEW c \in Players, NEW d \in Players, id(c) = id(d)
       PROVE  c = d
  <2>1. CASE c \in Elems(q) /\ d \in Elems(q)
    <3>1. Q(c) = Q(d)
      <4>1. /\ id(c) = Q(c) - 1 /\ Q(c) \in 1 .. Len(q)
            /\ id(d) = Q(d) - 1 /\ Q(d) \in 1 .. Len(q)
        BY <1>7, <2>1
      <4>2. Q(c) - 1 = Q(d) - 1
        BY <1>11, <4>1
      <4> QED BY <1>1, <4>1, <4>2, SMT
    <3> QED BY <1>5, <2>1, <3>1 DEF Q
  <2>2. CASE c \in Elems(p) /\ d \in Elems(p)
    <3>1. perm[P(c)] = perm[P(d)] /\ P(c) \in 1 .. Len(p) /\ P(d) \in 1 .. Len(p)
      <4>1. /\ id(c) = perm[P(c)] + Len(q) /\ perm[P(c)] \in 0 .. Len(p) - 1
            /\ id(d) = perm[P(d)] + Len(q) /\ perm[P(d)] \in 0 .. Len(p) - 1
            /\ P(c) \in 1 .. Len(p) /\ P(d) \in 1 .. Len(p)
        BY <1>8, <2>2
      <4>2. perm[P(c)] + Len(q) = perm[P(d)] + Len(q)
        BY <1>11, <4>1
      <4>3. perm[P(c)] = perm[P(d)]
        BY <1>1, <4>1, <4>2, SMT
      <4> QED BY <4>1, <4>3
    <3>2. P(c) = P(d)
      BY <1>4, <3>1
    <3> QED BY <1>5, <2>2, <3>2 DEF P
  <2>3. ASSUME NEW x \in Elems(q), NEW y \in Elems(p)
        PROVE  id(x) # id(y)
    <3>1. /\ id(x) = Q(x) - 1 /\ Q(x) \in 1 .. Len(q)
          /\ id(y) = perm[P(y)] + Len(q) /\ perm[P(y)] \in 0 .. Len(p) - 1
      BY <1>7, <1>8
    <3> QED BY <1>1, <3>1, SMT
  <2> QED BY <1>1, <1>11, <2>1, <2>2, <2>3
<1> QED BY <1>9, <1>10, <1>11 DEF id

-----------------------------------------------------------------------------
(* The game logic.                                                         *)

\* The game logics in the list.
NbGL == Len(roster["game logic"])

\* Where a handler goes after one of the reads of autostart.
LEMMA AutoReadTarget ==
  ASSUME VarsTypeOK, NEW c \in Client, NEW k \in 1 .. 4, AutostartRead(c, k)
  PROVE  /\ pc[c] \in {"auto1", "auto2", "auto3", "auto4"}
         /\ \/ pc'[c] = RoleHandler(c)
            \/ pc'[c] \in {"auto2", "auto3", "auto4"}
            \/ pc'[c] = "autoSet" /\ Len(roster["game logic"]) = 1
<1>1. /\ pc[c] = AutoPc[k]
      /\ pc'[c] = IF Len(roster[AutoRole[k]]) # Limit(AutoRole[k])
                    THEN RoleHandler(c)
                  ELSE IF k < 4 THEN AutoPc[k + 1] ELSE "autoSet"
  BY DEF AutostartRead, Goto, VarsTypeOK, ConnTypeOK
<1>2. k = 1 \/ k = 2 \/ k = 3 \/ k = 4
  OBVIOUS
<1>3. CASE k = 1
  BY <1>1, <1>3 DEF AutoPc
<1>4. CASE k = 2
  BY <1>1, <1>4 DEF AutoPc
<1>5. CASE k = 3
  BY <1>1, <1>5 DEF AutoPc
<1>6. CASE k = 4
  <2>1. AutoRole[k] = "game logic" /\ AutoPc[k] = "auto4"
    BY <1>6 DEF AutoRole, AutoPc
  <2>2. Limit(AutoRole[k]) = 1 /\ ~(k < 4)
    <3>1. Limit(AutoRole[k]) = 1
      BY <2>1, ZenonT(40) DEF Limit
    <3> QED BY <1>6, <3>1
  <2>3. CASE Len(roster[AutoRole[k]]) # 1
    BY <1>1, <2>1, <2>2, <2>3
  <2>4. CASE Len(roster[AutoRole[k]]) = 1
    BY <1>1, <2>1, <2>2, <2>4
  <2> QED BY <2>3, <2>4
<1> QED BY <1>2, <1>3, <1>4, <1>5, <1>6

\* There is one session of a game logic at a time.
LEMMA OneGameLogic ==
  ASSUME VarsTypeOK, SessionInv, NEW g \in GLs, InSession(g),
         NEW h \in GLs, h # g
  PROVE  pc[h] \in Early \cup {"done"}
<1> SUFFICES ASSUME InSession(h) PROVE FALSE
  BY DEF InSession, Early
<1> DEFINE s == roster["game logic"]
<1>1. g \in Elems(s) /\ h \in Elems(s)
  BY DEF SessionInv, RosterInv, Listed, GLs
<1>2. s \in Seq(Client) /\ Len(s) <= 1
  BY DEF SessionInv, GameLogicInv, VarsTypeOK, GsTypeOK, AllRole
<1> HIDE DEF s
<1>3. DOMAIN s = 1 .. Len(s) /\ Len(s) \in Nat
  BY <1>2
<1>4. \A i \in DOMAIN s : i = 1
  BY <1>2, <1>3
<1> QED BY <1>1, <1>4 DEF Elems
=============================================================================
