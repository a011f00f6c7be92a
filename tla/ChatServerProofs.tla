---------------------------- MODULE ChatServerProofs ----------------------------
(* Theorems about ChatServer, for any connections, rooms and bounds. *)
EXTENDS ChatServer, SequenceTheorems, FiniteSetTheorems, TLAPS

(* What is left when the i-th element is taken out of a sequence. *)
LEMMA RemoveAtProperties ==
  ASSUME NEW S, NEW s \in Seq(S), NEW i \in 1 .. Len(s)
  PROVE  /\ RemoveAt(s, i) \in Seq(S)
         /\ Len(RemoveAt(s, i)) = Len(s) - 1
         /\ \A j \in 1 .. i - 1 : RemoveAt(s, i)[j] = s[j]
         /\ \A j \in i .. Len(s) - 1 : RemoveAt(s, i)[j] = s[j + 1]
<1>1. Len(s) \in Nat
  BY LenProperties
<1>2. /\ SubSeq(s, 1, i - 1) \in Seq(S) /\ Len(SubSeq(s, 1, i - 1)) = i - 1
      /\ \A j \in 1 .. i - 1 : SubSeq(s, 1, i - 1)[j] = s[j]
  BY <1>1, SMT
<1>3. /\ SubSeq(s, i + 1, Len(s)) \in Seq(S) /\ Len(SubSeq(s, i + 1, Len(s))) = Len(s) - i
      /\ \A j \in 1 .. Len(s) - i : SubSeq(s, i + 1, Len(s))[j] = s[i + j]
  BY <1>1, SMT
<1> DEFINE u == SubSeq(s, 1, i - 1)
           v == SubSeq(s, i + 1, Len(s))
<1> HIDE DEF u, v
<1>4. /\ u \o v \in Seq(S) /\ Len(u \o v) = Len(u) + Len(v)
      /\ \A j \in 1 .. Len(u) + Len(v) :
           (u \o v)[j] = IF j <= Len(u) THEN u[j] ELSE v[j - Len(u)]
  <2>1. u \in Seq(S) /\ v \in Seq(S)
    BY <1>2, <1>3 DEF u, v
  <2> QED
    BY <2>1, ConcatProperties
<1>5. /\ Len(u) = i - 1 /\ Len(v) = Len(s) - i
      /\ \A j \in 1 .. i - 1 : u[j] = s[j]
      /\ \A j \in 1 .. Len(s) - i : v[j] = s[i + j]
  BY <1>2, <1>3 DEF u, v
<1> DEFINE t == u \o v
<1> HIDE DEF t
<1>6. t \in Seq(S) /\ Len(t) = Len(s) - 1
  BY <1>1, <1>4, <1>5 DEF t
<1>7. ASSUME NEW j \in 1 .. i - 1 PROVE t[j] = s[j]
  BY <1>1, <1>4, <1>5 DEF t
<1>8. ASSUME NEW j \in i .. Len(s) - 1 PROVE t[j] = s[j + 1]
  <2> DEFINE k == j - (i - 1)
  <2>1. /\ k \in 1 .. Len(s) - i /\ i + k = j + 1
        /\ j \in 1 .. Len(u) + Len(v) /\ ~(j <= Len(u)) /\ j - Len(u) = k
    BY <1>1, <1>5
  <2> HIDE DEF k
  <2>2. t[j] = v[k]
    BY <1>4, <2>1 DEF t
  <2>3. v[k] = s[i + k]
    BY <1>5, <2>1
  <2> QED
    BY <2>1, <2>2, <2>3
<1> QED
  BY <1>6, <1>7, <1>8 DEF t, u, v, RemoveAt

(* RemoveFirst takes out the element at i if it is at no place before i.    *)
LEMMA RemoveFirstIsRemoveAt ==
  ASSUME NEW S, NEW s \in Seq(S), NEW e, NEW i \in 1 .. Len(s), s[i] = e,
         \A j \in 1 .. Len(s) : s[j] = e => i <= j
  PROVE  RemoveFirst(s, e) = RemoveAt(s, i)
<1> DEFINE I == {j \in 1 .. Len(s) : s[j] = e}
<1>1. i \in I /\ \A j \in I : i <= j
  OBVIOUS
<1>2. Len(s) \in Nat /\ I \subseteq Nat
  BY LenProperties
<1>3. Min(I) = i
  <2> HIDE DEF I
  <2>1. \A x \in I : (\A y \in I : x <= y) => x = i
    BY <1>1, <1>2
  <2> QED
    BY <1>1, <2>1 DEF Min
<1>4. SelectInSeq(s, LAMBDA v : v = e) = Min(I)
  BY <1>1 DEF SelectInSeq
<1> QED
  BY <1>3, <1>4 DEF RemoveFirst

(* A member that leaves a list without repetitions is gone from it. *)
LEMMA RemoveMember ==
  ASSUME NEW S, NEW s \in Seq(S), NEW e \in S, IsInjective(s), e \in Range(s)
  PROVE  /\ RemoveFirst(s, e) \in Seq(S)
         /\ IsInjective(RemoveFirst(s, e))
         /\ Range(RemoveFirst(s, e)) = Range(s) \ {e}
<1>1. Len(s) \in Nat /\ DOMAIN s = 1 .. Len(s)
  BY LenProperties
<1>2. PICK i \in 1 .. Len(s) : s[i] = e
  BY <1>1 DEF Range
<1>3. \A j \in 1 .. Len(s) : s[j] = e => j = i
  BY <1>1, <1>2 DEF IsInjective
<1> DEFINE t == RemoveAt(s, i)
<1>4. RemoveFirst(s, e) = t
  BY <1>1, <1>2, <1>3, RemoveFirstIsRemoveAt
<1>5. /\ t \in Seq(S) /\ DOMAIN t = 1 .. Len(s) - 1
      /\ \A j \in 1 .. i - 1 : t[j] = s[j]
      /\ \A j \in i .. Len(s) - 1 : t[j] = s[j + 1]
  BY RemoveAtProperties, LenProperties
<1> HIDE DEF t
<1>6. ASSUME NEW j \in DOMAIN t
      PROVE  \E k \in 1 .. Len(s) :
               t[j] = s[k] /\ k # i /\ ((j < i /\ k = j) \/ (i <= j /\ k = j + 1))
  <2>1. CASE j < i
    <3>1. j \in 1 .. i - 1 /\ j \in 1 .. Len(s)
      BY <1>1, <1>5, <2>1
    <3> QED
      BY <1>5, <2>1, <3>1
  <2>2. CASE i <= j
    <3>1. j \in i .. Len(s) - 1 /\ j + 1 \in 1 .. Len(s) /\ j + 1 # i
      BY <1>1, <1>5, <2>2
    <3> QED
      BY <1>5, <2>2, <3>1
  <2> QED
    BY <1>1, <1>5, <2>1, <2>2
<1>7. IsInjective(t)
  <2> SUFFICES ASSUME NEW j \in DOMAIN t, NEW l \in DOMAIN t, t[j] = t[l]
               PROVE  j = l
    BY DEF IsInjective
  <2>1. PICK k \in 1 .. Len(s) : t[j] = s[k] /\ ((j < i /\ k = j) \/ (i <= j /\ k = j + 1))
    BY <1>6
  <2>2. PICK m \in 1 .. Len(s) : t[l] = s[m] /\ ((l < i /\ m = l) \/ (i <= l /\ m = l + 1))
    BY <1>6
  <2>3. k = m
    BY <1>1, <2>1, <2>2 DEF IsInjective
  <2> QED
    BY <1>1, <1>5, <2>1, <2>2, <2>3
<1>8. ASSUME NEW x \in Range(t) PROVE x \in Range(s) \ {e}
  <2>1. PICK j \in DOMAIN t : t[j] = x
    BY DEF Range
  <2>2. PICK k \in 1 .. Len(s) : k # i /\ s[k] = x
    BY <1>6, <2>1
  <2> QED
    BY <1>1, <1>3, <2>2 DEF Range
<1>9. ASSUME NEW x \in Range(s) \ {e} PROVE x \in Range(t)
  <2>1. PICK j \in 1 .. Len(s) : s[j] = x /\ j # i
    BY <1>1, <1>2 DEF Range
  <2>2. CASE j < i
    <3>1. j \in DOMAIN t /\ j \in 1 .. i - 1
      BY <1>1, <1>5, <2>1, <2>2
    <3> QED
      BY <1>5, <2>1, <3>1 DEF Range
  <2>3. CASE j > i
    <3>1. j - 1 \in DOMAIN t /\ j - 1 \in i .. Len(s) - 1 /\ (j - 1) + 1 = j
      BY <1>1, <1>5, <2>1, <2>3
    <3>2. t[j - 1] = x
      BY <1>5, <2>1, <3>1
    <3> QED
      BY <3>1, <3>2 DEF Range
  <2> QED
    BY <1>1, <2>1, <2>2, <2>3
<1> QED
  BY <1>4, <1>5, <1>7, <1>8, <1>9

(* A member that enters a list it is not in is added to it. *)
LEMMA AddMember ==
  ASSUME NEW S, NEW s \in Seq(S), NEW e \in S, IsInjective(s), e \notin Range(s)
  PROVE  /\ Append(s, e) \in Seq(S)
         /\ IsInjective(Append(s, e))
         /\ Range(Append(s, e)) = Range(s) \cup {e}
<1>1. /\ Len(s) \in Nat /\ DOMAIN s = 1 .. Len(s)
      /\ DOMAIN Append(s, e) = 1 .. Len(s) + 1 /\ Append(s, e) \in Seq(S)
      /\ Append(s, e)[Len(s) + 1] = e
      /\ \A j \in 1 .. Len(s) : Append(s, e)[j] = s[j]
  BY LenProperties, AppendProperties
<1> DEFINE t == Append(s, e)
<1> HIDE DEF t
<1>2. /\ DOMAIN t = 1 .. Len(s) + 1 /\ t \in Seq(S) /\ t[Len(s) + 1] = e
      /\ \A j \in 1 .. Len(s) : t[j] = s[j]
  BY <1>1 DEF t
<1>3. IsInjective(t)
  BY <1>1, <1>2 DEF IsInjective, Range
<1>4. Range(t) = Range(s) \cup {e}
  <2>1. \A x : x \in Range(t) => x \in Range(s) \cup {e}
    BY <1>1, <1>2 DEF Range
  <2>2. \A x : x \in Range(s) \cup {e} => x \in Range(t)
    BY <1>1, <1>2 DEF Range
  <2> QED
    BY <2>1, <2>2
<1> QED
  BY <1>2, <1>3, <1>4 DEF t

(* A member that enters again the list it is in is moved to its end. *)
LEMMA ReenterMember ==
  ASSUME NEW S, NEW s \in Seq(S), NEW e \in S, IsInjective(s), e \in Range(s)
  PROVE  /\ RemoveFirst(Append(s, e), e) \in Seq(S)
         /\ IsInjective(RemoveFirst(Append(s, e), e))
         /\ Range(RemoveFirst(Append(s, e), e)) = Range(s)
<1>1. Len(s) \in Nat /\ DOMAIN s = 1 .. Len(s)
  BY LenProperties
<1>2. PICK i \in 1 .. Len(s) : s[i] = e
  BY <1>1 DEF Range
<1>3. \A j \in 1 .. Len(s) : s[j] = e => j = i
  BY <1>1, <1>2 DEF IsInjective
<1> DEFINE a == Append(s, e)
           t == RemoveAt(a, i)
           u == Append(RemoveAt(s, i), e)
<1>4. /\ a \in Seq(S) /\ Len(a) = Len(s) + 1 /\ a[Len(s) + 1] = e
      /\ \A j \in 1 .. Len(s) : a[j] = s[j]
  BY AppendProperties, <1>1
<1>5. RemoveFirst(a, e) = t
  <2> HIDE DEF a
  <2>1. i \in 1 .. Len(a) /\ a[i] = e /\ \A j \in 1 .. Len(a) : a[j] = e => i <= j
    BY <1>1, <1>2, <1>3, <1>4
  <2> QED
    BY <1>4, <2>1, RemoveFirstIsRemoveAt
<1>6. /\ t \in Seq(S) /\ DOMAIN t = 1 .. Len(s)
      /\ \A j \in 1 .. i - 1 : t[j] = a[j]
      /\ \A j \in i .. Len(s) : t[j] = a[j + 1]
  <2> HIDE DEF a
  <2>1. /\ t \in Seq(S) /\ Len(t) = Len(a) - 1
        /\ \A j \in 1 .. i - 1 : t[j] = a[j]
        /\ \A j \in i .. Len(a) - 1 : t[j] = a[j + 1]
    <3>1. i \in 1 .. Len(a)
      BY <1>1, <1>4
    <3> QED
      BY <1>4, <3>1, RemoveAtProperties
  <2>2. Len(a) - 1 = Len(s)
    BY <1>1, <1>4
  <2> QED
    BY <2>1, <2>2, LenProperties
<1> DEFINE r == RemoveAt(s, i)
<1>7. /\ r \in Seq(S) /\ Len(r) = Len(s) - 1
      /\ \A j \in 1 .. i - 1 : r[j] = s[j]
      /\ \A j \in i .. Len(s) - 1 : r[j] = s[j + 1]
  BY RemoveAtProperties
<1>8. r = RemoveFirst(s, e)
  BY <1>1, <1>2, <1>3, RemoveFirstIsRemoveAt
<1>9. /\ r \in Seq(S) /\ IsInjective(r) /\ Range(r) = Range(s) \ {e}
  BY <1>8, RemoveMember
<1> HIDE DEF r, a, t
<1>10. /\ u \in Seq(S) /\ IsInjective(u) /\ Range(u) = Range(s)
  <2>1. e \notin Range(r)
    BY <1>9
  <2>2. /\ Append(r, e) \in Seq(S) /\ IsInjective(Append(r, e))
        /\ Range(Append(r, e)) = Range(r) \cup {e}
    BY <1>9, <2>1, AddMember
  <2> QED
    BY <1>9, <2>2 DEF r
<1>11. t = u
  <2>1. /\ u \in Seq(S) /\ DOMAIN u = 1 .. Len(s) /\ u[Len(s)] = e
        /\ \A j \in 1 .. Len(s) - 1 : u[j] = r[j]
    <3>1. /\ Append(r, e) \in Seq(S) /\ Len(Append(r, e)) = Len(r) + 1
          /\ Append(r, e)[Len(r) + 1] = e
          /\ \A j \in 1 .. Len(r) : Append(r, e)[j] = r[j]
      BY <1>7, AppendProperties
    <3>2. Len(r) = Len(s) - 1 /\ Len(r) + 1 = Len(s)
      BY <1>1, <1>7
    <3>3. DOMAIN Append(r, e) = 1 .. Len(s)
      BY <3>1, <3>2, LenProperties
    <3> QED
      BY <3>1, <3>2, <3>3 DEF r
  <2> HIDE DEF u
  <2>2. ASSUME NEW j \in 1 .. Len(s) PROVE t[j] = u[j]
    <3>1. CASE j < i
      <4>1. j \in 1 .. i - 1 /\ j \in 1 .. Len(s) - 1
        BY <1>1, <3>1
      <4> QED
        BY <1>4, <1>6, <1>7, <2>1, <4>1
    <3>2. CASE i <= j /\ j < Len(s)
      <4>1. /\ j \in i .. Len(s) - 1 /\ j \in i .. Len(s) /\ j \in 1 .. Len(s) - 1
            /\ j + 1 \in 1 .. Len(s)
        BY <1>1, <3>2
      <4> QED
        BY <1>4, <1>6, <1>7, <2>1, <4>1
    <3>3. CASE j = Len(s)
      <4>1. j \in i .. Len(s) /\ t[j] = a[Len(s) + 1]
        BY <1>1, <1>6, <3>3
      <4> QED
        BY <1>4, <2>1, <3>3, <4>1
    <3>4. i \in Int /\ j \in Int /\ Len(s) \in Int /\ j <= Len(s)
      BY <1>1
    <3> QED
      BY <3>1, <3>2, <3>3, <3>4
  <2>3. t = [j \in 1 .. Len(s) |-> t[j]] /\ u = [j \in 1 .. Len(s) |-> u[j]]
    BY <1>6, <2>1, LenProperties
  <2> QED
    BY <2>2, <2>3
<1> QED
  BY <1>5, <1>10, <1>11 DEF a

--------------------------------------------------------------------------------
(* What the operations put into a channel is an item of the inboxes. *)
LEMMA ItemTypes ==
  /\ \A r \in Name : Promise!Entered(r) \in Promise!Item
  /\ \A r \in Name, k \in Nat : Promise!Said(r, k + 1) \in Promise!Item
  /\ Promise!NoRoom \in Promise!Item
BY DEF Promise!Entered, Promise!Said, Promise!NoRoom, Promise!Item

(* The maps start empty and agree. *)
LEMMA InitIInv == Init => IInv
<1> SUFFICES ASSUME Init PROVE IInv
  OBVIOUS
<1>1. TypeOK
  BY ConstantsAssumption DEF Init, TypeOK
<1>2. MembershipConsistent
  <2>1. \A r \in Name : members[r] = <<>> /\ IsInjective(<<>>) /\ Range(<<>>) = {}
    BY DEF Init, IsInjective, Range
  <2>2. \A c \in Conn : rooms[c] = None /\ rooms[c] \notin Name
    BY ConstantsAssumption DEF Init
  <2> QED
    BY <2>1, <2>2 DEF MembershipConsistent
<1>3. KnownWhileRunning
  BY DEF Init, KnownWhileRunning
<1> QED
  BY <1>1, <1>2, <1>3 DEF IInv

(* What handle_message and the ends of a task do to the three maps. *)
LEMMA DestroyClientKeeps ==
  ASSUME IInv, NEW c \in Conn, DestroyClient(c)
  PROVE  /\ clients' = clients \ {c}
         /\ rooms' \in [Conn -> Name \cup {None}]
         /\ members' \in [Name -> Seq(Conn)]
         /\ MembershipConsistent'
<1>1. /\ clients' = clients \ {c} /\ rooms' = [rooms EXCEPT ![c] = None]
      /\ clients \subseteq Conn /\ rooms \in [Conn -> Name \cup {None}]
      /\ members \in [Name -> Seq(Conn)] /\ None \notin Name
  BY ConstantsAssumption DEF DestroyClient, IInv, TypeOK
<1>2. /\ \A r \in Name : /\ IsInjective(members[r])
                         /\ \A d \in Conn : d \in Range(members[r]) <=> rooms[d] = r
      /\ \A d \in Conn : rooms[d] # None => d \in clients
  BY DEF IInv, MembershipConsistent
<1>3. \A d \in Conn : rooms'[d] # None => d \in clients'
  BY <1>1, <1>2
<1>4. CASE rooms[c] = None
  <2>1. members' = members
    BY <1>4 DEF DestroyClient
  <2>2. \A r \in Name, d \in Conn : rooms'[d] = r <=> rooms[d] = r
    BY <1>1, <1>4
  <2> QED
    BY <1>1, <1>2, <1>3, <2>1, <2>2 DEF MembershipConsistent
<1>5. CASE rooms[c] # None
  <2> DEFINE b == rooms[c]
             s == members[b]
             t == RemoveFirst(s, c)
  <2>1. b \in Name /\ members' = [members EXCEPT ![b] = t]
    BY <1>1, <1>5 DEF DestroyClient
  <2>2. s \in Seq(Conn) /\ IsInjective(s) /\ c \in Range(s)
    BY <1>1, <1>2, <2>1
  <2> HIDE DEF s
  <2>3. t \in Seq(Conn) /\ IsInjective(t) /\ Range(t) = Range(s) \ {c}
    BY <2>2, RemoveMember
  <2> HIDE DEF t
  <2>4. members' \in [Name -> Seq(Conn)] /\ members'[b] = t
    BY <1>1, <2>1, <2>3
  <2>5. ASSUME NEW r \in Name
        PROVE  /\ IsInjective(members'[r])
               /\ \A d \in Conn : d \in Range(members'[r]) <=> rooms'[d] = r
    <3>1. CASE r = b
      BY <1>1, <1>2, <2>1, <2>3, <2>4, <3>1 DEF s
    <3>2. CASE r # b
      BY <1>1, <1>2, <2>1, <3>2
    <3> QED
      BY <3>1, <3>2
  <2> QED
    BY <1>1, <1>3, <2>4, <2>5 DEF MembershipConsistent
<1> QED
  BY <1>4, <1>5

LEMMA EnterKeeps ==
  ASSUME IInv, NEW c \in Conn, NEW r \in Name, Enter(c, r)
  PROVE  /\ rooms' \in [Conn -> Name \cup {None}]
         /\ members' \in [Name -> Seq(Conn)]
         /\ MembershipConsistent'
<1>1. /\ clients' = clients /\ rooms' = [rooms EXCEPT ![c] = r] /\ c \in clients
      /\ clients \subseteq Conn /\ rooms \in [Conn -> Name \cup {None}]
      /\ members \in [Name -> Seq(Conn)] /\ None \notin Name
  BY ConstantsAssumption DEF Enter, IInv, TypeOK
<1>2. /\ \A q \in Name : /\ IsInjective(members[q])
                         /\ \A d \in Conn : d \in Range(members[q]) <=> rooms[d] = q
      /\ \A d \in Conn : rooms[d] # None => d \in clients
  BY DEF IInv, MembershipConsistent
<1>3. \A d \in Conn : rooms'[d] # None => d \in clients'
  BY <1>1, <1>2
<1> DEFINE s == members[r]
           b == rooms[c]
           arrived == [members EXCEPT ![r] = Append(s, c)]
<1>4. s \in Seq(Conn) /\ IsInjective(s)
  BY <1>1, <1>2
<1>5. members' = IF b = None THEN arrived ELSE [arrived EXCEPT ![b] = RemoveFirst(@, c)]
  BY DEF Enter, MoveMember
<1>6. CASE b = r
  <2> DEFINE t == RemoveFirst(Append(s, c), c)
  <2>1. c \in Range(s)
    BY <1>2, <1>6
  <2> HIDE DEF s
  <2>2. t \in Seq(Conn) /\ IsInjective(t) /\ Range(t) = Range(s)
    BY <1>4, <2>1, ReenterMember
  <2>3. arrived[r] = Append(s, c)
    BY <1>1 DEF s
  <2>4. members' = [arrived EXCEPT ![r] = t]
    BY <1>1, <1>5, <1>6, <2>3
  <2> HIDE DEF t
  <2>5. /\ members' \in [Name -> Seq(Conn)] /\ members'[r] = t
        /\ \A q \in Name \ {r} : members'[q] = members[q]
    BY <1>1, <1>4, <2>2, <2>4
  <2>6. \A d \in Conn : rooms'[d] = rooms[d]
    BY <1>1, <1>6
  <2>7. ASSUME NEW q \in Name
        PROVE  /\ IsInjective(members'[q])
               /\ \A d \in Conn : d \in Range(members'[q]) <=> rooms'[d] = q
    BY <1>2, <2>2, <2>5, <2>6 DEF s
  <2> QED
    BY <1>1, <1>3, <2>5, <2>7 DEF MembershipConsistent
<1>7. CASE b # r
  <2> DEFINE u == members[b]
             t == RemoveFirst(u, c)
             a == Append(s, c)
  <2>1. c \notin Range(s)
    BY <1>2, <1>7
  <2> HIDE DEF s
  <2>2. a \in Seq(Conn) /\ IsInjective(a) /\ Range(a) = Range(s) \cup {c}
    BY <1>4, <2>1, AddMember
  <2> HIDE DEF a
  <2>3. CASE b = None
    <3>1. /\ members' \in [Name -> Seq(Conn)] /\ members'[r] = a
          /\ \A q \in Name \ {r} : members'[q] = members[q]
      BY <1>1, <1>5, <2>2, <2>3 DEF a
    <3>2. ASSUME NEW q \in Name
          PROVE  /\ IsInjective(members'[q])
                 /\ \A d \in Conn : d \in Range(members'[q]) <=> rooms'[d] = q
      <4>1. CASE q = r
        BY <1>1, <1>2, <2>2, <3>1, <4>1 DEF s
      <4>2. CASE q # r
        BY <1>1, <1>2, <2>3, <3>1, <4>2
      <4> QED
        BY <4>1, <4>2
    <3> QED
      BY <1>1, <1>3, <3>1, <3>2 DEF MembershipConsistent
  <2>4. CASE b # None
    <3>1. b \in Name /\ u \in Seq(Conn) /\ IsInjective(u) /\ c \in Range(u)
      BY <1>1, <1>2, <2>4
    <3> HIDE DEF u
    <3>2. t \in Seq(Conn) /\ IsInjective(t) /\ Range(t) = Range(u) \ {c}
      BY <3>1, RemoveMember
    <3>3. arrived[b] = u
      BY <1>1, <1>7, <3>1 DEF u
    <3>4. members' = [arrived EXCEPT ![b] = t]
      BY <1>5, <2>4, <3>3
    <3> HIDE DEF t
    <3>5. /\ members' \in [Name -> Seq(Conn)] /\ members'[r] = a /\ members'[b] = t
          /\ \A q \in Name \ {r, b} : members'[q] = members[q]
      BY <1>1, <1>7, <2>2, <3>1, <3>2, <3>4 DEF a
    <3>6. ASSUME NEW q \in Name
          PROVE  /\ IsInjective(members'[q])
                 /\ \A d \in Conn : d \in Range(members'[q]) <=> rooms'[d] = q
      <4>1. CASE q = r
        BY <1>1, <1>2, <2>2, <3>5, <4>1 DEF s
      <4>2. CASE q = b
        BY <1>1, <1>2, <1>7, <3>1, <3>2, <3>5, <4>2 DEF u
      <4>3. CASE q \notin {r, b}
        BY <1>1, <1>2, <3>5, <4>3
      <4> QED
        BY <4>1, <4>2, <4>3
    <3> QED
      BY <1>1, <1>3, <3>5, <3>6 DEF MembershipConsistent
  <2> QED
    BY <2>3, <2>4
<1> QED
  BY <1>6, <1>7

(* The loop over the members of a room meets everybody else who is in it    *)
(* once, and nobody more.                                                   *)
LEMMA CopiesAreOnce ==
  ASSUME IInv, NEW c \in clients, rooms[c] # None, NEW d \in Conn
  PROVE  /\ d \in Promise!Others(c) => Copies(c, d) = 1
         /\ d \notin Promise!Others(c) => Copies(c, d) = 0
<1> DEFINE m == members[rooms[c]]
           K == {i \in DOMAIN m : m[i] = d}
<1>1. /\ c \in Conn /\ rooms[c] \in Name /\ IsInjective(m)
      /\ d \in Range(m) <=> rooms[d] = rooms[c]
      /\ rooms[d] # None => d \in clients
  BY DEF IInv, TypeOK, MembershipConsistent
<1>2. Copies(c, d) = IF d = c \/ d \notin clients THEN 0 ELSE Cardinality(K)
  BY DEF Copies
<1>3. CASE d \in Promise!Others(c)
  <2>1. d # c /\ d \in clients /\ d \in Range(m)
    BY <1>1, <1>3 DEF Promise!Others
  <2>2. PICK i \in DOMAIN m : m[i] = d
    BY <2>1 DEF Range
  <2>3. K = {i}
    BY <1>1, <2>2 DEF IsInjective
  <2>4. Cardinality(K) = 1
    BY <2>3, FS_Singleton
  <2> QED
    BY <1>2, <1>3, <2>1, <2>4
<1>4. CASE d \notin Promise!Others(c)
  <2>1. CASE d = c \/ d \notin clients
    BY <1>2, <1>4, <2>1
  <2>2. CASE d # c /\ d \in clients
    <3>1. d \notin Range(m)
      BY <1>1, <1>4, <2>2 DEF Promise!Others
    <3>2. K = {}
      BY <3>1 DEF Range
    <3>3. Cardinality(K) = 0
      BY <3>2, FS_EmptySet
    <3> QED
      BY <1>2, <1>4, <2>2, <3>3
  <2> QED
    BY <2>1, <2>2
<1> QED
  BY <1>3, <1>4

(* The copies a message is queued in are the one entry of RoomChat's inboxes. *)
LEMMA SayDelivers ==
  ASSUME IInv, NEW c \in Conn, Say(c)
  PROVE  /\ queue' = [d \in Conn |-> IF d \in Promise!Others(c)
                                     THEN Append(queue[d], Promise!Said(rooms[c], said + 1))
                                     ELSE queue[d]]
         /\ queue' \in [Conn -> Seq(Promise!Item)]
         /\ said' \in Nat
<1> DEFINE item == Promise!Said(rooms[c], said + 1)
<1>1. /\ c \in clients /\ rooms[c] # None /\ said' = said + 1 /\ said \in Nat
      /\ queue' = [d \in Conn |-> queue[d] \o [i \in 1 .. Copies(c, d) |-> item]]
      /\ queue \in [Conn -> Seq(Promise!Item)]
  BY DEF Say, IInv, TypeOK
<1>2. item \in Promise!Item
  <2>1. rooms[c] \in Name /\ said \in Nat
    BY <1>1 DEF IInv, TypeOK
  <2> QED
    BY <2>1, ItemTypes
<1> HIDE DEF item
<1>3. ASSUME NEW d \in Conn
      PROVE  queue'[d] = IF d \in Promise!Others(c) THEN Append(queue[d], item) ELSE queue[d]
  <2>1. queue[d] \in Seq(Promise!Item)
    BY <1>1
  <2>2. CASE d \in Promise!Others(c)
    <3>1. Copies(c, d) = 1
      BY <1>1, <2>2, CopiesAreOnce
    <3>2. [i \in 1 .. Copies(c, d) |-> item] = <<item>>
      BY <3>1
    <3>3. Append(queue[d], item) = queue[d] \o <<item>>
      BY <1>2, <2>1, AppendIsConcat
    <3> QED
      BY <1>1, <2>2, <3>2, <3>3
  <2>3. CASE d \notin Promise!Others(c)
    <3>1. Copies(c, d) = 0
      BY <1>1, <2>3, CopiesAreOnce
    <3>2. [i \in 1 .. Copies(c, d) |-> item] = <<>>
      BY <3>1
    <3>3. queue[d] \o <<>> = queue[d]
      BY <2>1, ConcatEmptySeq
    <3> QED
      BY <1>1, <2>3, <3>2, <3>3
  <2> QED
    BY <2>2, <2>3
<1>4. queue' = [d \in Conn |-> IF d \in Promise!Others(c)
                               THEN Append(queue[d], item) ELSE queue[d]]
  BY <1>1, <1>3
<1>5. \A d \in Conn : Append(queue[d], item) \in Seq(Promise!Item)
  BY <1>1, <1>2, AppendProperties
<1>6. queue' \in [Conn -> Seq(Promise!Item)]
  BY <1>1, <1>4, <1>5
<1>7. said' \in Nat
  BY <1>1
<1> QED
  BY <1>4, <1>6, <1>7, Zenon DEF item

(* A task that ends is forgotten by all three maps in the same step. *)
LEMMA EndKeeps ==
  ASSUME IInv, NEW c \in Conn, DestroyClient(c), End(c),
         stream' \in [Conn -> Seq(Unit)]
  PROVE  IInv'
<1>1. /\ clients' = clients \ {c} /\ rooms' \in [Conn -> Name \cup {None}]
      /\ members' \in [Name -> Seq(Conn)] /\ MembershipConsistent'
  BY DestroyClientKeeps
<1>2. /\ task' = [task EXCEPT ![c] = "ended"] /\ queue' = [queue EXCEPT ![c] = <<>>]
      /\ unsent' = [unsent EXCEPT ![c] = <<>>] /\ UNCHANGED <<peer, typed, said, shown>>
  BY DEF End
<1>3. TypeOK'
  BY <1>1, <1>2 DEF IInv, TypeOK
<1>4. KnownWhileRunning'
  BY <1>1, <1>2 DEF IInv, TypeOK, KnownWhileRunning
<1> QED
  BY <1>1, <1>3, <1>4 DEF IInv

(* Reading a frame leaves the rest of the stream, units as before. *)
LEMMA ReceivedKeeps ==
  ASSUME IInv, NEW c \in Conn, NEW chunk \in Chunk, Received(c, chunk)
  PROVE  stream' \in [Conn -> Seq(Unit)]
<1>1. stream \in [Conn -> Seq(Unit)] /\ stream[c] \in Seq(Unit)
  BY DEF IInv, TypeOK
<1>2. PICK n \in 1 .. MaxRead : chunk \in [1 .. n -> Unit]
  BY DEF Chunk
<1>3. n \in Nat /\ Len(chunk) = n
  BY <1>2, ConstantsAssumption
<1>4. SubSeq(stream[c], Len(chunk) + 1, Len(stream[c])) \in Seq(Unit)
  BY <1>1, <1>3
<1> QED
  BY <1>1, <1>4 DEF Received

(* A frame that is handled leaves its client known and the maps agreeing. *)
LEMMA ReadLegalKeeps ==
  ASSUME IInv, NEW c \in Conn, NEW chunk \in Chunk, ReadLegal(c, chunk)
  PROVE  IInv'
<1>1. UNCHANGED <<task, unsent, peer, typed, shown>> /\ Received(c, chunk)
  BY DEF ReadLegal
<1>2. stream' \in [Conn -> Seq(Unit)]
  BY <1>1, ReceivedKeeps
<1>3. queue \in [Conn -> Seq(Promise!Item)]
  BY DEF IInv, TypeOK
<1>4. CASE IsEnter(chunk) /\ Enter(c, chunk)
  <2>1. chunk \in Name
    BY <1>4 DEF Name
  <2>2. /\ rooms' \in [Conn -> Name \cup {None}] /\ members' \in [Name -> Seq(Conn)]
        /\ MembershipConsistent' /\ UNCHANGED <<clients, said>>
    BY <1>4, <2>1, EnterKeeps DEF Enter
  <2>3. queue' \in [Conn -> Seq(Promise!Item)]
    <3>1. Append(queue[c], Promise!Entered(chunk)) \in Seq(Promise!Item)
      BY <1>3, <2>1, ItemTypes, AppendProperties
    <3> QED
      BY <1>3, <1>4, <3>1 DEF Enter
  <2> QED
    BY <1>1, <1>2, <2>2, <2>3 DEF IInv, TypeOK, KnownWhileRunning
<1>5. CASE Say(c)
  <2>1. queue' \in [Conn -> Seq(Promise!Item)] /\ said' \in Nat
    BY <1>5, SayDelivers
  <2>2. UNCHANGED <<clients, rooms, members>>
    BY <1>5 DEF Say, hub
  <2> QED
    BY <1>1, <1>2, <2>1, <2>2 DEF IInv, TypeOK, KnownWhileRunning, MembershipConsistent
<1>6. CASE Refuse(c)
  <2>1. queue' \in [Conn -> Seq(Promise!Item)]
    <3>1. Append(queue[c], Promise!NoRoom) \in Seq(Promise!Item)
      BY <1>3, ItemTypes, AppendProperties
    <3> QED
      BY <1>3, <1>6, <3>1 DEF Refuse
  <2>2. UNCHANGED <<clients, rooms, members, said>>
    BY <1>6 DEF Refuse, hub
  <2> QED
    BY <1>1, <1>2, <2>1, <2>2 DEF IInv, TypeOK, KnownWhileRunning, MembershipConsistent
<1> QED
  BY <1>4, <1>5, <1>6 DEF ReadLegal

(* Every step of a task and of its peer keeps the inductive invariant. *)
LEMMA NextIInv == IInv /\ [Next]_vars => IInv'
<1> SUFFICES ASSUME IInv, [Next]_vars PROVE IInv'
  OBVIOUS
<1>1. ASSUME NEW c \in Conn, Connect(c) PROVE IInv'
  BY <1>1 DEF Connect, hub, IInv, TypeOK, KnownWhileRunning, MembershipConsistent
<1>2. ASSUME NEW c \in Conn, Behave(c) PROVE IInv'
  <2>1. peer' \in [Conn -> {"absent", "reading", "stalled", "closed"}]
    BY <1>2 DEF Behave, IInv, TypeOK
  <2> QED
    BY <1>2, <2>1 DEF Behave, hub, IInv, TypeOK, KnownWhileRunning, MembershipConsistent
<1>3. ASSUME NEW c \in Conn, NEW unit \in Unit, Type(c, unit) PROVE IInv'
  <2>1. typed' \in 0 .. MaxTyped
    BY <1>3, ConstantsAssumption DEF Type, IInv, TypeOK
  <2>2. stream' \in [Conn -> Seq(Unit)]
    BY <1>3, AppendProperties DEF Type, IInv, TypeOK
  <2> QED
    BY <1>3, <2>1, <2>2 DEF Type, hub, IInv, TypeOK, KnownWhileRunning, MembershipConsistent
<1>4. ASSUME NEW c \in Conn, Register(c) PROVE IInv'
  BY <1>4 DEF Register, AppendClient, network, IInv, TypeOK, KnownWhileRunning,
              MembershipConsistent
<1>5. ASSUME NEW c \in Conn, NEW chunk \in Chunk, ReadLegal(c, chunk) PROVE IInv'
  BY <1>5, ReadLegalKeeps
<1>6. ASSUME NEW c \in Conn, NEW chunk \in Chunk, ReadIllegal(c, chunk) PROVE IInv'
  BY <1>6, ReceivedKeeps, EndKeeps DEF ReadIllegal
<1>7. ASSUME NEW c \in Conn, ReadEnd(c) \/ WriteFails(c) PROVE IInv'
  BY <1>7, EndKeeps DEF ReadEnd, WriteFails, IInv, TypeOK
<1>8. ASSUME NEW c \in Conn, Recv(c) PROVE IInv'
  <2>1. queue[c] \in Seq(Promise!Item) /\ queue[c] # <<>>
    BY <1>8 DEF Recv, IInv, TypeOK
  <2>2. Head(queue[c]) \in Promise!Item /\ Tail(queue[c]) \in Seq(Promise!Item)
    BY <2>1, HeadTailProperties
  <2>3. <<Head(queue[c])>> \in Seq(Promise!Item)
    BY <2>2
  <2> QED
    BY <1>8, <2>2, <2>3 DEF Recv, hub, network, IInv, TypeOK, KnownWhileRunning,
                            MembershipConsistent
<1>9. ASSUME NEW c \in Conn, Written(c) PROVE IInv'
  <2>1. shown[c] \o unsent[c] \in Seq(Promise!Item)
    <3>1. shown[c] \in Seq(Promise!Item) /\ unsent[c] \in Seq(Promise!Item)
      BY DEF IInv, TypeOK
    <3> QED
      BY <3>1, ConcatProperties
  <2> QED
    BY <1>9, <2>1 DEF Written, hub, network, IInv, TypeOK, KnownWhileRunning,
                      MembershipConsistent
<1>10. CASE UNCHANGED vars
  BY <1>10 DEF vars, hub, network, IInv, TypeOK, KnownWhileRunning, MembershipConsistent
<1> QED
  BY <1>1, <1>2, <1>3, <1>4, <1>5, <1>6, <1>7, <1>8, <1>9, <1>10
  DEF Next, PeerStep, TaskStep, ReadFrame

(* The inductive invariant of the chat servers. *)
THEOREM Invariance == Spec => []IInv
BY InitIInv, NextIInv, PTL DEF Spec

(* The maps, channels and tasks keep their types. *)
THEOREM TypeCorrect == Spec => []TypeOK
<1>1. IInv => TypeOK
  BY DEF IInv
<1> QED
  BY <1>1, Invariance, PTL

(* The three maps agree, however rooms are entered, entered again and left. *)
THEOREM MapsAgree == Spec => []MembershipConsistent
<1>1. IInv => MembershipConsistent
  BY DEF IInv
<1> QED
  BY <1>1, Invariance, PTL

(* A client is known to the rooms exactly while its task is in its loop.    *)
THEOREM EndedIsDestroyed == Spec => []KnownWhileRunning
<1>1. IInv => KnownWhileRunning
  BY DEF IInv
<1> QED
  BY <1>1, Invariance, PTL

--------------------------------------------------------------------------------
(* A line of items stays in order when one is put at its end that is newer  *)
(* than all messages in it, or no message.                                  *)
LEMMA AppendInOrder ==
  ASSUME NEW s \in Seq(Promise!Item), NEW x \in Promise!Item, NEW n \in Nat, NEW m \in Nat,
         InOrder(s), \A i \in DOMAIN s : s[i].rank <= n,
         x.kind = "said" => x.rank > n, x.rank <= m, n <= m
  PROVE  /\ InOrder(Append(s, x))
         /\ \A i \in DOMAIN Append(s, x) : Append(s, x)[i].rank <= m
<1> DEFINE t == Append(s, x)
<1>1. /\ Len(s) \in Nat /\ DOMAIN s = 1 .. Len(s) /\ DOMAIN t = 1 .. Len(s) + 1
      /\ \A i \in 1 .. Len(s) : t[i] = s[i]
      /\ t[Len(s) + 1] = x
  BY AppendProperties, LenProperties
<1>2. \A i \in 1 .. Len(s) : s[i] \in Promise!Item
  BY ElementOfSeq
<1>3. \A y \in Promise!Item : y.rank \in Nat
  BY DEF Promise!Item, Promise!NoRoom
<1> HIDE DEF t
<1>4. ASSUME NEW i \in DOMAIN t PROVE t[i].rank <= m
  BY <1>1, <1>2, <1>3
<1>5. ASSUME NEW i \in DOMAIN t, NEW j \in DOMAIN t, i < j,
             t[i].kind = "said", t[j].kind = "said"
      PROVE  t[i].rank < t[j].rank
  <2>1. i \in 1 .. Len(s) /\ t[i] = s[i]
    BY <1>1, <1>5
  <2>2. CASE j \in 1 .. Len(s)
    BY <1>1, <1>5, <2>1, <2>2 DEF InOrder
  <2>3. CASE j = Len(s) + 1
    BY <1>1, <1>2, <1>3, <1>5, <2>1, <2>3
  <2> QED
    BY <1>1, <2>2, <2>3
<1>6. InOrder(t)
  BY <1>5 DEF InOrder
<1> QED
  BY <1>4, <1>6 DEF t

(* The first part of a line in order is in order. *)
LEMMA PrefixInOrder ==
  ASSUME NEW s \in Seq(Promise!Item), NEW t \in Seq(Promise!Item), NEW n \in Nat,
         InOrder(s \o t), \A i \in DOMAIN (s \o t) : (s \o t)[i].rank <= n
  PROVE  InOrder(s) /\ \A i \in DOMAIN s : s[i].rank <= n
<1> DEFINE u == s \o t
<1>1. /\ Len(s) \in Nat /\ Len(t) \in Nat /\ DOMAIN s = 1 .. Len(s)
      /\ DOMAIN u = 1 .. Len(s) + Len(t)
      /\ \A i \in 1 .. Len(s) : u[i] = s[i]
  BY ConcatProperties, LenProperties
<1> HIDE DEF u
<1>2. InOrder(u) /\ \A i \in DOMAIN u : u[i].rank <= n
  BY DEF u
<1> QED
  BY <1>1, <1>2 DEF InOrder

(* What is on its way to a peer, part by part. *)
LEMMA OnTheWayTypes ==
  ASSUME IInv, NEW c \in Conn
  PROVE  /\ shown[c] \in Seq(Promise!Item) /\ unsent[c] \in Seq(Promise!Item)
         /\ queue[c] \in Seq(Promise!Item)
         /\ shown[c] \o unsent[c] \in Seq(Promise!Item)
         /\ OnTheWay(c) \in Seq(Promise!Item)
<1>1. /\ shown[c] \in Seq(Promise!Item) /\ unsent[c] \in Seq(Promise!Item)
      /\ queue[c] \in Seq(Promise!Item)
  BY DEF IInv, TypeOK
<1>2. shown[c] \o unsent[c] \in Seq(Promise!Item)
  BY <1>1, ConcatProperties
<1>3. OnTheWay(c) \in Seq(Promise!Item)
  BY <1>1, <1>2, ConcatProperties DEF OnTheWay
<1> QED
  BY <1>1, <1>2, <1>3

(* The order is kept by whatever is queued last.                            *)
LEMMA QueuedKeepsOrder ==
  ASSUME IInv, OrderInv, NEW c \in Conn, NEW x \in Promise!Item,
         shown'[c] = shown[c], unsent'[c] = unsent[c], queue'[c] = Append(queue[c], x),
         said' \in Nat, said <= said', x.kind = "said" => x.rank > said, x.rank <= said'
  PROVE  /\ InOrder(OnTheWay(c))'
         /\ \A i \in DOMAIN OnTheWay(c)' : OnTheWay(c)'[i].rank <= said'
<1> DEFINE a == shown[c] \o unsent[c]
<1>1. a \in Seq(Promise!Item) /\ queue[c] \in Seq(Promise!Item) /\ said \in Nat
      /\ OnTheWay(c) \in Seq(Promise!Item)
  BY OnTheWayTypes DEF IInv, TypeOK
<1>2. OnTheWay(c)' = a \o Append(queue[c], x)
  BY DEF OnTheWay
<1>3. OnTheWay(c) = a \o queue[c]
  BY DEF OnTheWay
<1> HIDE DEF a
<1>4. <<x>> \in Seq(Promise!Item)
  OBVIOUS
<1>5. a \o Append(queue[c], x) = a \o (queue[c] \o <<x>>)
  BY <1>1, AppendIsConcat
<1>6. a \o (queue[c] \o <<x>>) = OnTheWay(c) \o <<x>>
  <2> DEFINE q == queue[c]
             y == <<x>>
  <2>1. q \in Seq(Promise!Item) /\ y \in Seq(Promise!Item)
    BY <1>1, <1>4
  <2> HIDE DEF q, y
  <2>2. (a \o q) \o y = a \o (q \o y)
    <3>1. a \in Seq(Promise!Item)
      BY <1>1
    <3> QED
      BY <2>1, <3>1, ConcatAssociative, SMTT(30)
  <2> QED
    BY <1>3, <2>2 DEF q, y
<1>7. OnTheWay(c)' = Append(OnTheWay(c), x)
  BY <1>1, <1>2, <1>5, <1>6, AppendIsConcat
<1>8. InOrder(OnTheWay(c)) /\ \A i \in DOMAIN OnTheWay(c) : OnTheWay(c)[i].rank <= said
  BY DEF OrderInv, ShownInOrder
<1>9. /\ InOrder(Append(OnTheWay(c), x))
      /\ \A i \in DOMAIN Append(OnTheWay(c), x) : Append(OnTheWay(c), x)[i].rank <= said'
  BY <1>1, <1>8, AppendInOrder
<1> QED
  BY <1>7, <1>9 DEF InOrder

(* So it is by whatever leaves what is on its way alone. *)
LEMMA SameKeepsOrder ==
  ASSUME OrderInv, NEW c \in Conn, OnTheWay(c)' = OnTheWay(c), said' = said
  PROVE  /\ InOrder(OnTheWay(c))'
         /\ \A i \in DOMAIN OnTheWay(c)' : OnTheWay(c)'[i].rank <= said'
<1>1. InOrder(OnTheWay(c)) /\ \A i \in DOMAIN OnTheWay(c) : OnTheWay(c)[i].rank <= said
  BY DEF OrderInv, ShownInOrder
<1> QED
  BY <1>1 DEF InOrder

(* And a task that ends drops the end of it. *)
LEMMA EndKeepsOrder ==
  ASSUME IInv, OrderInv, NEW c \in Conn, End(c)
  PROVE  OrderInv'
<1>1. /\ task' = [task EXCEPT ![c] = "ended"] /\ queue' = [queue EXCEPT ![c] = <<>>]
      /\ unsent' = [unsent EXCEPT ![c] = <<>>] /\ said' = said /\ shown' = shown
      /\ said \in Nat
  BY DEF End, IInv, TypeOK
<1>2. \A d \in Conn \ {c} : OnTheWay(d)' = OnTheWay(d) /\ task'[d] = task[d] /\ unsent'[d] = unsent[d]
  BY <1>1 DEF OnTheWay, IInv, TypeOK
<1>3. OnTheWay(c)' = shown[c] /\ unsent'[c] = <<>>
  <2>1. queue'[c] = <<>> /\ unsent'[c] = <<>> /\ shown'[c] = shown[c]
    BY <1>1 DEF IInv, TypeOK
  <2>2. shown[c] \o <<>> \o <<>> = shown[c]
    BY OnTheWayTypes, ConcatEmptySeq
  <2> QED
    BY <2>1, <2>2 DEF OnTheWay
<1>4. InOrder(shown[c]) /\ \A i \in DOMAIN shown[c] : shown[c][i].rank <= said
  <2>1. /\ shown[c] \in Seq(Promise!Item) /\ unsent[c] \in Seq(Promise!Item)
        /\ queue[c] \in Seq(Promise!Item)
    BY OnTheWayTypes
  <2>2. InOrder(OnTheWay(c)) /\ \A i \in DOMAIN OnTheWay(c) : OnTheWay(c)[i].rank <= said
    BY DEF OrderInv, ShownInOrder
  <2>3. shown[c] \o unsent[c] \in Seq(Promise!Item)
    BY <2>1, ConcatProperties
  <2>4. /\ InOrder(shown[c] \o unsent[c])
        /\ \A i \in DOMAIN (shown[c] \o unsent[c]) : (shown[c] \o unsent[c])[i].rank <= said
    BY <1>1, <2>1, <2>2, <2>3, PrefixInOrder DEF OnTheWay
  <2> QED
    BY <1>1, <2>1, <2>4, PrefixInOrder
<1>5. ASSUME NEW d \in Conn
      PROVE  /\ InOrder(OnTheWay(d))'
             /\ \A i \in DOMAIN OnTheWay(d)' : OnTheWay(d)'[i].rank <= said'
             /\ Taken(d)'
  <2>1. CASE d = c
    <3>1. InOrder(OnTheWay(c))'
      BY <1>3, <1>4 DEF InOrder
    <3>2. Taken(c)'
      BY <1>1, <1>3 DEF Taken, IInv, TypeOK
    <3> QED
      BY <1>1, <1>3, <1>4, <2>1, <3>1, <3>2
  <2>2. CASE d # c
    <3>1. Taken(d)'
      BY <1>2, <2>2 DEF OrderInv, Taken
    <3> QED
      BY <1>1, <1>2, <2>2, <3>1, SameKeepsOrder
  <2> QED
    BY <2>1, <2>2
<1> QED
  BY <1>5 DEF OrderInv, ShownInOrder

(* A frame that is handled queues items that are newer than all others. *)
LEMMA ReadKeepsOrder ==
  ASSUME IInv, OrderInv, NEW c \in Conn, NEW chunk \in Chunk, ReadLegal(c, chunk)
  PROVE  OrderInv'
<1>1. UNCHANGED <<task, unsent, shown>> /\ said \in Nat /\ queue \in [Conn -> Seq(Promise!Item)]
  BY DEF ReadLegal, IInv, TypeOK
<1> DEFINE Kept(d) == /\ InOrder(OnTheWay(d))'
                      /\ \A i \in DOMAIN OnTheWay(d)' : OnTheWay(d)'[i].rank <= said'
<1>2. SUFFICES ASSUME NEW d \in Conn PROVE Kept(d)
  BY <1>1 DEF OrderInv, ShownInOrder, Taken
<1>3. ASSUME NEW x \in Promise!Item, x.rank = 0, x.kind # "said", said' = said,
             queue' = [queue EXCEPT ![c] = Append(@, x)]
      PROVE  Kept(d)
  <2>1. CASE d = c
    BY <1>1, <1>3, <2>1, QueuedKeepsOrder
  <2>2. CASE d # c
    <3>1. OnTheWay(d)' = OnTheWay(d)
      BY <1>1, <1>3, <2>2 DEF OnTheWay
    <3> QED
      BY <1>3, <3>1, SameKeepsOrder
  <2> QED
    BY <2>1, <2>2
<1>4. CASE IsEnter(chunk) /\ Enter(c, chunk)
  <2>1. chunk \in Name
    BY <1>4 DEF Name
  <2>2. /\ Promise!Entered(chunk) \in Promise!Item
        /\ Promise!Entered(chunk).rank = 0 /\ Promise!Entered(chunk).kind # "said"
    BY <2>1, ItemTypes DEF Promise!Entered
  <2> QED
    BY <1>3, <1>4, <2>2 DEF Enter
<1>5. CASE Refuse(c)
  <2>1. /\ Promise!NoRoom \in Promise!Item
        /\ Promise!NoRoom.rank = 0 /\ Promise!NoRoom.kind # "said"
    BY ItemTypes DEF Promise!NoRoom
  <2> QED
    BY <1>3, <1>5, <2>1 DEF Refuse
<1>6. CASE Say(c)
  <2> DEFINE x == Promise!Said(rooms[c], said + 1)
  <2>1. x \in Promise!Item /\ x.rank = said + 1 /\ said' = said + 1
    BY <1>1, <1>6, ItemTypes DEF Say, Promise!Said, IInv, TypeOK
  <2>2. queue'[d] = IF d \in Promise!Others(c) THEN Append(queue[d], x) ELSE queue[d]
    BY <1>6, SayDelivers
  <2> HIDE DEF x
  <2>3. CASE d \in Promise!Others(c)
    BY <1>1, <2>1, <2>2, <2>3, QueuedKeepsOrder
  <2>4. CASE d \notin Promise!Others(c)
    <3>1. OnTheWay(d)' = OnTheWay(d)
      BY <1>1, <2>2, <2>4 DEF OnTheWay
    <3>2. /\ OnTheWay(d) \in Seq(Promise!Item) /\ InOrder(OnTheWay(d))
          /\ \A i \in DOMAIN OnTheWay(d) : OnTheWay(d)[i].rank <= said
      BY OnTheWayTypes DEF OrderInv, ShownInOrder
    <3>3. \A i \in DOMAIN OnTheWay(d) : OnTheWay(d)[i].rank \in Nat
      <4>1. \A y \in Promise!Item : y.rank \in Nat
        BY DEF Promise!Item, Promise!NoRoom
      <4> QED
        BY <3>2, <4>1, ElementOfSeq, LenProperties
    <3> QED
      BY <1>1, <2>1, <3>1, <3>2, <3>3 DEF InOrder
  <2> QED
    BY <2>3, <2>4
<1> QED
  BY <1>4, <1>5, <1>6 DEF ReadLegal

(* Taking an item from a queue and writing it moves the parts' boundaries. *)
LEMMA NextKeepsOrder == IInv /\ OrderInv /\ [Next]_vars => OrderInv'
<1> SUFFICES ASSUME IInv, OrderInv, [Next]_vars PROVE OrderInv'
  OBVIOUS
<1>1. ASSUME said' = said, \A d \in Conn : OnTheWay(d)' = OnTheWay(d),
             \A d \in Conn : Taken(d)'
      PROVE  OrderInv'
  BY <1>1, SameKeepsOrder DEF OrderInv, ShownInOrder
<1>2. ASSUME NEW c \in Conn, Connect(c) \/ Behave(c) \/ Register(c) PROVE OrderInv'
  <2>1. UNCHANGED <<shown, unsent, queue, said>>
    BY <1>2 DEF Connect, Behave, Register
  <2>2. \A d \in Conn : Taken(d)'
    BY <1>2, <2>1 DEF Connect, Behave, Register, OrderInv, Taken, IInv, TypeOK
  <2> QED
    BY <1>1, <2>1, <2>2 DEF OnTheWay
<1>3. ASSUME NEW c \in Conn, NEW unit \in Unit, Type(c, unit) PROVE OrderInv'
  <2>1. UNCHANGED <<shown, unsent, queue, said, task>>
    BY <1>3 DEF Type
  <2> QED
    BY <1>1, <2>1 DEF OnTheWay, OrderInv, Taken
<1>4. ASSUME NEW c \in Conn, NEW chunk \in Chunk, ReadLegal(c, chunk) PROVE OrderInv'
  BY <1>4, ReadKeepsOrder
<1>5. ASSUME NEW c \in Conn, NEW chunk \in Chunk, ReadIllegal(c, chunk) PROVE OrderInv'
  BY <1>5, EndKeepsOrder DEF ReadIllegal
<1>6. ASSUME NEW c \in Conn, ReadEnd(c) \/ WriteFails(c) PROVE OrderInv'
  BY <1>6, EndKeepsOrder DEF ReadEnd, WriteFails
<1>7. ASSUME NEW c \in Conn, Recv(c) PROVE OrderInv'
  <2>1. /\ shown' = shown /\ said' = said /\ queue[c] # <<>> /\ unsent[c] = <<>>
        /\ queue'[c] = Tail(queue[c]) /\ unsent'[c] = <<Head(queue[c])>> /\ task'[c] = "write"
        /\ \A d \in Conn \ {c} : /\ queue'[d] = queue[d] /\ unsent'[d] = unsent[d]
                                 /\ task'[d] = task[d]
    BY <1>7 DEF Recv, network, OrderInv, Taken, IInv, TypeOK
  <2>2. OnTheWay(c)' = OnTheWay(c)
    <3> DEFINE h == <<Head(queue[c])>>
               t == Tail(queue[c])
               s == shown[c]
    <3>1. s \in Seq(Promise!Item) /\ queue[c] \in Seq(Promise!Item)
      BY OnTheWayTypes
    <3>2. Head(queue[c]) \in Promise!Item /\ t \in Seq(Promise!Item)
      BY <2>1, <3>1, HeadTailProperties
    <3>3. h \in Seq(Promise!Item)
      BY <3>2
    <3>4. h \o t = queue[c]
      <4>1. queue[c] \in Seq(Promise!Item) /\ queue[c] # <<>>
        BY <2>1, <3>1
      <4> QED
        BY <4>1, SMT
    <3>5. OnTheWay(c)' = (s \o h) \o t /\ OnTheWay(c) = (s \o <<>>) \o queue[c]
      BY <2>1 DEF OnTheWay
    <3> HIDE DEF h, t, s
    <3>6. (s \o h) \o t = s \o (h \o t)
      BY <3>1, <3>2, <3>3, ConcatAssociative
    <3>7. s \o <<>> = s
      BY <3>1, ConcatEmptySeq
    <3> QED
      BY <3>4, <3>5, <3>6, <3>7
  <2>3. \A d \in Conn : OnTheWay(d)' = OnTheWay(d)
    BY <2>1, <2>2 DEF OnTheWay
  <2>4. \A d \in Conn : Taken(d)'
    <3>1. Len(unsent'[c]) = 1
      <4>1. unsent'[c] = <<Head(queue[c])>>
        BY <2>1
      <4> QED
        BY <4>1
    <3>2. \A d \in Conn \ {c} : Taken(d)'
      BY <2>1 DEF OrderInv, Taken
    <3>3. Taken(c)'
      BY <2>1, <3>1 DEF Taken
    <3> QED
      BY <3>2, <3>3
  <2> QED
    BY <1>1, <2>1, <2>3, <2>4
<1>8. ASSUME NEW c \in Conn, Written(c) PROVE OrderInv'
  <2>1. /\ queue' = queue /\ said' = said
        /\ shown'[c] = shown[c] \o unsent[c] /\ unsent'[c] = <<>> /\ task'[c] = "select"
        /\ \A d \in Conn \ {c} : /\ shown'[d] = shown[d] /\ unsent'[d] = unsent[d]
                                 /\ task'[d] = task[d]
    BY <1>8 DEF Written, IInv, TypeOK
  <2>2. OnTheWay(c)' = OnTheWay(c)
    <3>1. (shown[c] \o unsent[c]) \o <<>> = shown[c] \o unsent[c]
      BY OnTheWayTypes, ConcatEmptySeq
    <3> QED
      BY <2>1, <3>1 DEF OnTheWay
  <2>3. \A d \in Conn : OnTheWay(d)' = OnTheWay(d)
    BY <2>1, <2>2 DEF OnTheWay
  <2>4. \A d \in Conn : Taken(d)'
    BY <2>1 DEF OrderInv, Taken
  <2> QED
    BY <1>1, <2>1, <2>3, <2>4
<1>9. CASE UNCHANGED vars
  BY <1>1, <1>9 DEF vars, OnTheWay, OrderInv, Taken
<1> QED
  BY <1>2, <1>3, <1>4, <1>5, <1>6, <1>7, <1>8, <1>9
  DEF Next, PeerStep, TaskStep, ReadFrame

LEMMA OrderInvariance == Spec => []OrderInv
<1>1. Init => OrderInv
  <2>1. ASSUME Init, NEW c \in Conn
        PROVE  OnTheWay(c) = <<>> /\ unsent[c] = <<>> /\ task[c] # "write"
    <3>1. shown[c] = <<>> /\ unsent[c] = <<>> /\ queue[c] = <<>> /\ task[c] = "absent"
      BY <2>1 DEF Init
    <3>2. <<>> \o <<>> = <<>>
      BY EmptySeq, ConcatEmptySeq
    <3> QED
      BY <3>1, <3>2 DEF OnTheWay
  <2> QED
    BY <2>1 DEF OrderInv, ShownInOrder, InOrder, Taken
<1> QED
  BY <1>1, NextKeepsOrder, Invariance, PTL DEF Spec

(* Every peer is shown the messages of its rooms in the order in which they *)
(* were said, and none twice, for any connections, rooms and bounds.        *)
THEOREM Ordered == Spec => []ShownInOrder
<1>1. OrderInv => ShownInOrder
  BY DEF OrderInv
<1> QED
  BY <1>1, OrderInvariance, PTL

--------------------------------------------------------------------------------
(* What is queued comes after what is being written.                        *)
LEMMA PendingAppend ==
  ASSUME IInv, NEW d \in Conn, NEW x \in Promise!Item
  PROVE  unsent[d] \o Append(queue[d], x) = Append(unsent[d] \o queue[d], x)
<1> DEFINE u == unsent[d]
           q == queue[d]
           y == <<x>>
<1>1. u \in Seq(Promise!Item) /\ q \in Seq(Promise!Item) /\ y \in Seq(Promise!Item)
  BY OnTheWayTypes
<1>2. Append(q, x) = q \o y
  BY <1>1, AppendIsConcat
<1>3. u \o q \in Seq(Promise!Item) /\ Append(u \o q, x) = (u \o q) \o y
  <2> HIDE DEF u, q
  <2>1. u \o q \in Seq(Promise!Item)
    BY <1>1, ConcatProperties
  <2> QED
    BY <2>1, AppendIsConcat
<1>4. u \o (q \o y) = (u \o q) \o y
  <2> HIDE DEF u, q, y
  <2> QED
    BY <1>1, ConcatAssociative, SMTT(30)
<1> QED
  BY <1>2, <1>3, <1>4

(* What a task takes out of its channel is still to be shown, ...           *)
LEMMA RecvKeepsPending ==
  ASSUME IInv, OrderInv, NEW c \in Conn, Recv(c)
  PROVE  Pending' = Pending
<1>1. /\ queue[c] # <<>> /\ unsent[c] = <<>>
      /\ queue'[c] = Tail(queue[c]) /\ unsent'[c] = <<Head(queue[c])>>
      /\ \A d \in Conn \ {c} : queue'[d] = queue[d] /\ unsent'[d] = unsent[d]
  BY DEF Recv, OrderInv, Taken, IInv, TypeOK
<1>2. queue[c] \in Seq(Promise!Item)
  BY OnTheWayTypes
<1>3. <<Head(queue[c])>> \o Tail(queue[c]) = queue[c]
  BY <1>1, <1>2, SMT
<1>4. <<>> \o queue[c] = queue[c]
  BY <1>2, ConcatEmptySeq
<1>5. \A d \in Conn : unsent'[d] \o queue'[d] = unsent[d] \o queue[d]
  BY <1>1, <1>3, <1>4
<1> QED
  BY <1>5 DEF Pending

(* ... and what it has written is the first of that.                        *)
LEMMA WrittenIsTake ==
  ASSUME IInv, OrderInv, NEW c \in Conn, Written(c)
  PROVE  Promise!Take(c)
<1> DEFINE x == Head(unsent[c])
           q == queue[c]
<1>1. /\ queue' = queue /\ UNCHANGED <<hub, said>>
      /\ shown' = [shown EXCEPT ![c] = shown[c] \o unsent[c]]
      /\ unsent' = [unsent EXCEPT ![c] = <<>>]
      /\ c \in clients /\ Len(unsent[c]) = 1
  BY DEF Written, IInv, KnownWhileRunning, OrderInv, Taken
<1>2. /\ shown[c] \in Seq(Promise!Item) /\ unsent[c] \in Seq(Promise!Item)
      /\ q \in Seq(Promise!Item) /\ unsent \in [Conn -> Seq(Promise!Item)]
  BY OnTheWayTypes DEF IInv, TypeOK
<1>3. unsent[c] = <<x>> /\ x \in Promise!Item
  <2>1. unsent[c] # <<>>
    BY <1>1, EmptySeq
  <2> QED
    BY <1>1, <1>2, <2>1, HeadTailProperties, SMT
<1>4. shown[c] \o unsent[c] = Append(shown[c], x)
  BY <1>2, <1>3, AppendIsConcat
<1> HIDE DEF x, q
<1>5. <<>> \o q = q /\ <<x>> \o q # <<>> /\ Head(<<x>> \o q) = x /\ Tail(<<x>> \o q) = q
  <2>1. <<x>> \in Seq(Promise!Item) /\ Len(<<x>>) = 1 /\ <<x>>[1] = x
    BY <1>3
  <2> DEFINE y == <<x>>
             z == y \o q
  <2>2. y \in Seq(Promise!Item) /\ Len(y) = 1 /\ y[1] = x
    BY <2>1
  <2> HIDE DEF y
  <2>3. /\ z \in Seq(Promise!Item) /\ Len(z) = 1 + Len(q) /\ Len(q) \in Nat
        /\ z[1] = x /\ \A i \in 1 .. Len(q) : z[i + 1] = q[i]
    <3>1. /\ z \in Seq(Promise!Item) /\ Len(z) = Len(y) + Len(q)
          /\ \A i \in 1 .. Len(y) + Len(q) : z[i] = IF i <= Len(y) THEN y[i] ELSE q[i - Len(y)]
      BY <1>2, <2>2, ConcatProperties
    <3>2. Len(q) \in Nat
      BY <1>2, LenProperties
    <3> HIDE DEF z
    <3>3. \A i \in 1 .. Len(q) : i + 1 \in 1 .. 1 + Len(q) /\ ~(i + 1 <= 1) /\ (i + 1) - 1 = i
      BY <3>2
    <3> QED
      BY <2>2, <3>1, <3>2, <3>3
  <2> HIDE DEF z
  <2>4. z # <<>> /\ Head(z) = x
    BY <2>3
  <2>5. Tail(z) = q
    <3>1. /\ Tail(z) \in Seq(Promise!Item) /\ Len(Tail(z)) = Len(q)
          /\ \A i \in 1 .. Len(q) : Tail(z)[i] = q[i]
      BY <2>3, <2>4, HeadTailProperties
    <3> QED
      BY <1>2, <3>1, SeqEqual
  <2>6. <<>> \o q = q
    BY <1>2, ConcatEmptySeq
  <2> QED
    BY <2>4, <2>5, <2>6 DEF y, z
<1>6. Pending[c] = <<x>> \o q /\ Pending[c] # <<>> /\ Head(Pending[c]) = x
  BY <1>3, <1>5 DEF Pending, q
<1>7. Pending' = [Pending EXCEPT ![c] = Tail(@)]
  <2>1. \A d \in Conn : unsent'[d] \o queue'[d] = IF d = c THEN q ELSE unsent[d] \o queue[d]
    BY <1>1, <1>2, <1>5 DEF q
  <2>2. Tail(Pending[c]) = q
    BY <1>5, <1>6
  <2>3. Pending' = [d \in Conn |-> IF d = c THEN q ELSE unsent[d] \o queue[d]]
    BY <2>1 DEF Pending
  <2> QED
    BY <2>2, <2>3 DEF Pending
<1>8. shown' = [shown EXCEPT ![c] = Append(shown[c], Head(Pending[c]))]
  BY <1>1, <1>4, <1>6
<1> QED
  BY <1>1, <1>6, <1>7, <1>8 DEF Promise!Take, hub

--------------------------------------------------------------------------------
(* Every step of a task is a step of RoomChat or leaves its inboxes alone. *)
LEMMA NextImplements == IInv /\ OrderInv /\ [Next]_vars => [Promise!Next]_(Promise!vars)
<1> SUFFICES ASSUME IInv, OrderInv, [Next]_vars PROVE Promise!Next \/ UNCHANGED Promise!vars
  OBVIOUS
<1> USE DEF Promise!vars
<1>1. ASSUME NEW c \in Conn, Connect(c) \/ Behave(c)
      PROVE  UNCHANGED Promise!vars
  BY <1>1 DEF Connect, Behave, hub, Pending
<1>2. ASSUME NEW c \in Conn, NEW unit \in Unit, Type(c, unit) PROVE UNCHANGED Promise!vars
  BY <1>2 DEF Type, hub, Pending
<1>3. ASSUME NEW c \in Conn, Register(c) PROVE Promise!Next
  <2>1. Promise!Come(c)
    BY <1>3 DEF Register, AppendClient, Promise!Come, IInv, KnownWhileRunning, Pending
  <2> QED
    BY <2>1 DEF Promise!Next
<1>4. ASSUME NEW c \in Conn, NEW chunk \in Chunk, ReadLegal(c, chunk) PROVE Promise!Next
  <2>1. UNCHANGED <<unsent, shown>> /\ queue \in [Conn -> Seq(Promise!Item)]
    BY <1>4 DEF ReadLegal, IInv, TypeOK
  <2>2. ASSUME NEW x \in Promise!Item, queue' = [queue EXCEPT ![c] = Append(@, x)]
        PROVE  Pending' = [Pending EXCEPT ![c] = Append(@, x)]
    <3>1. \A d \in Conn : unsent'[d] \o queue'[d] =
            IF d = c THEN Append(unsent[d] \o queue[d], x) ELSE unsent[d] \o queue[d]
      BY <2>1, <2>2, PendingAppend
    <3> QED
      BY <3>1 DEF Pending
  <2>3. CASE IsEnter(chunk) /\ Enter(c, chunk)
    <3>1. chunk \in Name /\ Promise!Entered(chunk) \in Promise!Item
      BY <2>3, ItemTypes DEF Name
    <3>2. Pending' = [Pending EXCEPT ![c] = Append(@, Promise!Entered(chunk))]
      BY <2>2, <2>3, <3>1 DEF Enter
    <3>3. Promise!Enter(c, chunk)
      BY <2>1, <2>3, <3>2 DEF Enter, Promise!Enter
    <3> QED
      BY <3>1, <3>3 DEF Promise!Next
  <2>4. CASE Say(c)
    <3> DEFINE x == Promise!Said(rooms[c], said + 1)
    <3>1. x \in Promise!Item
      BY <2>4, ItemTypes DEF Say, IInv, TypeOK
    <3> HIDE DEF x
    <3>2. queue' = [d \in Conn |-> IF d \in Promise!Others(c) THEN Append(queue[d], x)
                                                              ELSE queue[d]]
      BY <2>4, SayDelivers DEF x
    <3>3. \A d \in Conn : unsent'[d] \o queue'[d] =
            IF d \in Promise!Others(c) THEN Append(Pending[d], x) ELSE Pending[d]
      BY <2>1, <3>1, <3>2, PendingAppend DEF Pending
    <3>4. Pending' = [d \in Conn |-> IF d \in Promise!Others(c) THEN Append(Pending[d], x)
                                                               ELSE Pending[d]]
      BY <3>3 DEF Pending
    <3>5. Promise!Say(c)
      BY <2>1, <2>4, <3>4 DEF Say, hub, Promise!Say, x
    <3> QED
      BY <3>5 DEF Promise!Next
  <2>5. CASE Refuse(c)
    <3>1. Pending' = [Pending EXCEPT ![c] = Append(@, Promise!NoRoom)]
      BY <2>2, <2>5, ItemTypes DEF Refuse
    <3>2. Promise!Refuse(c)
      BY <2>1, <2>5, <3>1 DEF Refuse, hub, Promise!Refuse
    <3> QED
      BY <3>2 DEF Promise!Next
  <2> QED
    BY <1>4, <2>3, <2>4, <2>5 DEF ReadLegal
<1>5. ASSUME NEW c \in Conn, task[c] \in {"select", "write"}, DestroyClient(c), End(c)
      PROVE  Promise!Next
  <2>1. Pending' = [Pending EXCEPT ![c] = <<>>]
    <3>1. \A d \in Conn : unsent'[d] \o queue'[d] = IF d = c THEN <<>> ELSE unsent[d] \o queue[d]
      <4>1. <<>> \o <<>> = <<>>
        BY EmptySeq, ConcatEmptySeq
      <4>2. /\ unsent'[c] = <<>> /\ queue'[c] = <<>>
            /\ \A d \in Conn \ {c} : unsent'[d] = unsent[d] /\ queue'[d] = queue[d]
        BY <1>5 DEF End, IInv, TypeOK
      <4> QED
        BY <4>1, <4>2
    <3> QED
      BY <3>1 DEF Pending
  <2>2. Promise!Leave(c)
    BY <1>5, <2>1 DEF DestroyClient, End, Promise!Leave, IInv, KnownWhileRunning
  <2> QED
    BY <2>2 DEF Promise!Next
<1>6. ASSUME NEW c \in Conn, NEW chunk \in Chunk, ReadIllegal(c, chunk) PROVE Promise!Next
  BY <1>5, <1>6 DEF ReadIllegal, Received
<1>7. ASSUME NEW c \in Conn, ReadEnd(c) \/ WriteFails(c) PROVE Promise!Next
  BY <1>5, <1>7 DEF ReadEnd, WriteFails
<1>8. ASSUME NEW c \in Conn, Recv(c) PROVE UNCHANGED Promise!vars
  BY <1>8, RecvKeepsPending DEF Recv, hub
<1>9. ASSUME NEW c \in Conn, Written(c) PROVE Promise!Next
  BY <1>9, WrittenIsTake DEF Promise!Next
<1>10. CASE UNCHANGED vars
  BY <1>10 DEF vars, hub, Pending
<1> QED
  BY <1>1, <1>2, <1>3, <1>4, <1>6, <1>7, <1>8, <1>9, <1>10
  DEF Next, PeerStep, TaskStep, ReadFrame

(* Maps, channels and tasks implement RoomChat: what is said in a room is   *)
(* queued once for everybody else in it and for nobody outside it, and is   *)
(* shown to whoever stays, in order, with nothing left out.                 *)
THEOREM KeepsPromise == Spec => ImplementsRoomChat
<1>1. Init => Promise!Init
  <2> SUFFICES ASSUME Init PROVE Promise!Init
    OBVIOUS
  <2>1. <<>> \o <<>> = <<>>
    BY EmptySeq, ConcatEmptySeq
  <2>2. \A c \in Conn : unsent[c] \o queue[c] = <<>>
    BY <2>1 DEF Init
  <2>3. Pending = [c \in Conn |-> <<>>]
    BY <2>2 DEF Pending
  <2> QED
    BY <2>3 DEF Init, Promise!Init
<1> QED
  BY <1>1, NextImplements, Invariance, OrderInvariance, PTL
  DEF Spec, ImplementsRoomChat, Promise!Spec
================================================================================
