--------------------------- MODULE StoreRefinement ---------------------------
(***************************************************************************)
(* ScriptStore implements AtomicStore: every critical section is an        *)
(* operation of AtomicStore, or a step that no session can see.            *)
(***************************************************************************)
EXTENDS ScriptStoreProofs, FiniteSetTheorems

-----------------------------------------------------------------------------
(***************************************************************************)
(* What a slice stands for: a set of files and the name of the active one. *)
(***************************************************************************)
FileOf(sc) == [name |-> sc.name, content |-> sc.content]

NamesIn(q) == {f.name : f \in FilesOf(q)}

LEMMA NamesInIs == ASSUME NEW q, NEW n PROVE n \in NamesIn(q) <=> Has(q, n)
<1>1. ASSUME n \in NamesIn(q) PROVE Has(q, n)
  <2>1. PICK f \in FilesOf(q) : n = f.name BY <1>1 DEF NamesIn
  <2>2. PICK i \in DOMAIN q : f = [name |-> q[i].name, content |-> q[i].content]
        BY DEF FilesOf
  <2> QED BY <2>1, <2>2 DEF Has
<1>2. ASSUME Has(q, n) PROVE n \in NamesIn(q)
  <2>1. PICK i \in DOMAIN q : q[i].name = n BY <1>2 DEF Has
  <2> DEFINE f == [name |-> q[i].name, content |-> q[i].content]
  <2>2. f \in FilesOf(q) /\ f.name = n BY <2>1 DEF FilesOf
  <2> HIDE DEF f
  <2> QED BY <2>2 DEF NamesIn
<1> QED BY <1>1, <1>2

\* No two scripts have one name, so that the limit counts files.
LEMMA FilesCount ==
  ASSUME NEW q, Sound(q)
  PROVE  Cardinality(FilesOf(q)) = Len(q)
<1> DEFINE n == Len(q)
           b == [i \in 1 .. n |-> [name |-> q[i].name, content |-> q[i].content]]
<1>1. q \in Seq(Script) /\ n \in Nat /\ DOMAIN q = 1 .. n BY DEF Sound
<1>2. b \in [1 .. n -> FilesOf(q)] BY <1>1 DEF FilesOf
<1>3. \A i, j \in 1 .. n : b[i] = b[j] => i = j
  <2> SUFFICES ASSUME NEW i \in 1 .. n, NEW j \in 1 .. n, b[i] = b[j] PROVE i = j OBVIOUS
  <2>1. q[i].name = q[j].name OBVIOUS
  <2> QED BY <1>1, <2>1 DEF Sound, UniqueNames
<1>4. \A f \in FilesOf(q) : \E i \in 1 .. n : b[i] = f BY <1>1 DEF FilesOf
<1> HIDE DEF b
<1>5. b \in Injection(1 .. n, FilesOf(q)) BY <1>2, <1>3 DEF Injection, IsInjective
<1>6. b \in Surjection(1 .. n, FilesOf(q)) BY <1>2, <1>4 DEF Surjection
<1>7. IsFiniteSet(1 .. n) /\ Cardinality(1 .. n) = n BY <1>1, FS_Interval
<1> QED BY <1>5, <1>6, <1>7, FS_Surjection

LEMMA ActiveIs ==
  ASSUME NEW q, Sound(q), NEW i \in DOMAIN q, q[i].active
  PROVE  ActiveOf(q) = q[i].name
<1> DEFINE k == CHOOSE j \in DOMAIN q : q[j].active
<1>1. k \in DOMAIN q /\ q[k].active OBVIOUS
<1>2. k = i BY <1>1 DEF Sound, OneActive
<1>3. ActiveOf(q) = q[k].name BY DEF ActiveOf
<1> QED BY <1>2, <1>3

LEMMA NoActive == ASSUME NEW q, ~HasActiveIn(q) PROVE ActiveOf(q) = ""
BY DEF ActiveOf, HasActiveIn

\* The name of the active script is that of a script that is active.
LEMMA ActiveNamed ==
  ASSUME NEW q, Sound(q), NEW n, Has(q, n)
  PROVE  ActiveOf(q) = n <=> q[find(q, n)].active
<1> DEFINE k == find(q, n)
<1>1. q \in Seq(Script) /\ UniqueNames(q) BY DEF Sound
<1>2. /\ k \in DOMAIN q /\ q[k].name = n
      /\ \A i \in DOMAIN q : q[i].name = n => i = k
      BY <1>1, FindIs
<1> HIDE DEF k
<1>3. CASE q[k].active BY <1>2, <1>3, ActiveIs DEF k
<1>4. CASE ~q[k].active
  <2>1. CASE HasActiveIn(q)
    <3>1. PICK i \in DOMAIN q : q[i].active BY <2>1 DEF HasActiveIn
    <3>2. ActiveOf(q) = q[i].name BY <3>1, ActiveIs
    <3> QED BY <1>2, <1>4, <3>1, <3>2 DEF k
  <2>2. CASE ~HasActiveIn(q)
    <3>1. q[k] \in Script BY <1>1, <1>2
    <3>2. n # "" BY <1>2, <3>1, ScriptFields, StoreAssumption
    <3> QED BY <1>4, <2>2, <3>2, NoActive DEF k
  <2> QED BY <2>1, <2>2
<1> QED BY <1>3, <1>4

\* An edit in place replaces the file of that name.
LEMMA EditedFiles ==
  ASSUME NEW q, Sound(q), NEW k \in DOMAIN q, NEW sc \in Script
  PROVE  FilesOf([q EXCEPT ![k] = sc])
           = {f \in FilesOf(q) : f.name # q[k].name} \cup {FileOf(sc)}
<1> DEFINE r == [q EXCEPT ![k] = sc]
           F == {f \in FilesOf(q) : f.name # q[k].name}
<1>1. q \in Seq(Script) /\ UniqueNames(q) BY DEF Sound
<1>2. DOMAIN r = DOMAIN q /\ \A i \in DOMAIN q : r[i] = IF i = k THEN sc ELSE q[i] BY <1>1
<1> HIDE DEF r
<1>3. ASSUME NEW f \in FilesOf(r) PROVE f \in F \cup {FileOf(sc)}
  <2>1. PICK i \in DOMAIN r : f = FileOf(r[i]) BY <1>3 DEF FilesOf, FileOf
  <2>2. CASE i = k BY <1>2, <2>1, <2>2
  <2>3. CASE i # k
    <3>1. f = FileOf(q[i]) /\ i \in DOMAIN q BY <1>2, <2>1, <2>3
    <3>2. f \in FilesOf(q) BY <3>1 DEF FilesOf, FileOf
    <3>3. f.name = q[i].name BY <3>1 DEF FileOf
    <3>4. f.name # q[k].name BY <1>1, <2>3, <3>1, <3>3 DEF UniqueNames
    <3> QED BY <3>2, <3>4
  <2> QED BY <2>2, <2>3
<1>4. FileOf(sc) \in FilesOf(r) BY <1>2 DEF FilesOf, FileOf
<1>5. ASSUME NEW f \in F PROVE f \in FilesOf(r)
  <2>1. PICK i \in DOMAIN q : f = FileOf(q[i]) BY <1>5 DEF FilesOf, FileOf
  <2>2. i # k BY <1>5, <2>1 DEF FileOf
  <2>3. f = FileOf(r[i]) /\ i \in DOMAIN r BY <1>2, <2>1, <2>2
  <2> QED BY <2>3 DEF FilesOf, FileOf
<1>6. FilesOf(r) = F \cup {FileOf(sc)} BY <1>3, <1>4, <1>5
<1> QED BY <1>6 DEF r

\* ... and leaves the active one what it was, unless it is about that one.
LEMMA EditedActiveOf ==
  ASSUME NEW q, Sound(q), NEW k \in DOMAIN q, NEW sc \in Script,
         Sound([q EXCEPT ![k] = sc])
  PROVE  ActiveOf([q EXCEPT ![k] = sc])
           = IF sc.active THEN sc.name
             ELSE IF q[k].active THEN "" ELSE ActiveOf(q)
<1> DEFINE r == [q EXCEPT ![k] = sc]
<1>1. q \in Seq(Script) /\ OneActive(q) BY DEF Sound
<1>2. DOMAIN r = DOMAIN q /\ \A i \in DOMAIN q : r[i] = IF i = k THEN sc ELSE q[i] BY <1>1
<1>3. Sound(r) OBVIOUS
<1> HIDE DEF r
<1>4. CASE sc.active
  <2>1. k \in DOMAIN r /\ r[k] = sc BY <1>2
  <2>2. ActiveOf(r) = sc.name BY <1>3, <1>4, <2>1, ActiveIs
  <2> QED BY <1>4, <2>2 DEF r
<1>5. CASE ~sc.active /\ q[k].active
  <2>1. ~HasActiveIn(r) BY <1>1, <1>2, <1>5 DEF HasActiveIn, OneActive
  <2>2. ActiveOf(r) = "" BY <2>1, NoActive
  <2> QED BY <1>5, <2>2 DEF r
<1>6. CASE ~sc.active /\ ~q[k].active
  <2>1. CASE HasActiveIn(q)
    <3>1. PICK i \in DOMAIN q : q[i].active BY <2>1 DEF HasActiveIn
    <3>2. i \in DOMAIN r /\ r[i] = q[i] BY <1>2, <1>6, <3>1
    <3>3. ActiveOf(q) = q[i].name /\ ActiveOf(r) = q[i].name
          BY <1>3, <3>1, <3>2, ActiveIs
    <3> QED BY <1>6, <3>3 DEF r
  <2>2. CASE ~HasActiveIn(q)
    <3>1. ~HasActiveIn(r) BY <1>2, <1>6, <2>2 DEF HasActiveIn
    <3>2. ActiveOf(q) = "" /\ ActiveOf(r) = "" BY <2>2, <3>1, NoActive
    <3> QED BY <1>6, <3>2 DEF r
  <2> QED BY <2>1, <2>2
<1> QED BY <1>4, <1>5, <1>6

LEMMA DeactivatedFiles ==
  ASSUME NEW q, Sound(q)
  PROVE  FilesOf(Deactivated(q)) = FilesOf(q) /\ ActiveOf(Deactivated(q)) = ""
<1> DEFINE r == Deactivated(q)
<1>1. /\ DOMAIN r = DOMAIN q
      /\ \A i \in DOMAIN q : ~r[i].active /\ r[i].name = q[i].name
      BY DeactivatedSound
<1>2. \A i \in DOMAIN q : r[i].content = q[i].content
  <2> SUFFICES ASSUME NEW i \in DOMAIN q PROVE r[i].content = q[i].content OBVIOUS
  <2>1. q[i] \in Script /\ r[i] = [q[i] EXCEPT !.active = FALSE] BY DEF Deactivated, Sound
  <2> HIDE DEF r
  <2> QED BY <2>1, Zenon DEF Script
<1> HIDE DEF r
<1>3. FilesOf(r) = FilesOf(q) BY <1>1, <1>2 DEF FilesOf
<1>4. ActiveOf(r) = "" BY <1>1, NoActive DEF HasActiveIn
<1> QED BY <1>3, <1>4 DEF r

LEMMA AppendFiles ==
  ASSUME NEW q, Sound(q), NEW sc \in Script, Sound(Append(q, sc))
  PROVE  /\ FilesOf(Append(q, sc)) = FilesOf(q) \cup {FileOf(sc)}
         /\ ActiveOf(Append(q, sc)) = IF sc.active THEN sc.name ELSE ActiveOf(q)
<1> DEFINE r == Append(q, sc)  k == Len(q) + 1
<1>1. q \in Seq(Script) BY DEF Sound
<1>2. /\ DOMAIN r = DOMAIN q \cup {k} /\ r[k] = sc
      /\ \A i \in DOMAIN q : r[i] = q[i]
      BY <1>1
<1>3. Sound(r) OBVIOUS
<1> HIDE DEF r, k
<1>4. FilesOf(r) = FilesOf(q) \cup {FileOf(sc)} BY <1>2 DEF FilesOf, FileOf
<1>5. ActiveOf(r) = IF sc.active THEN sc.name ELSE ActiveOf(q)
  <2>1. CASE sc.active BY <1>2, <1>3, <2>1, ActiveIs
  <2>2. CASE ~sc.active /\ HasActiveIn(q)
    <3>1. PICK i \in DOMAIN q : q[i].active BY <2>2 DEF HasActiveIn
    <3>2. i \in DOMAIN r /\ r[i] = q[i] BY <1>2, <3>1
    <3>3. ActiveOf(q) = q[i].name /\ ActiveOf(r) = q[i].name
          BY <1>3, <3>1, <3>2, ActiveIs
    <3> QED BY <2>2, <3>3
  <2>3. CASE ~sc.active /\ ~HasActiveIn(q)
    <3>1. ~HasActiveIn(r) BY <1>2, <2>3 DEF HasActiveIn
    <3> QED BY <2>3, <3>1, NoActive
  <2> QED BY <2>1, <2>2, <2>3
<1> QED BY <1>4, <1>5 DEF r

LEMMA WithoutFiles ==
  ASSUME NEW q, Sound(q), NEW k \in DOMAIN q, ~q[k].active
  PROVE  /\ FilesOf(Without(q, k)) = {f \in FilesOf(q) : f.name # q[k].name}
         /\ ActiveOf(Without(q, k)) = ActiveOf(q)
<1> DEFINE r == Without(q, k)  at(i) == IF i < k THEN i ELSE i + 1
           F == {f \in FilesOf(q) : f.name # q[k].name}
<1>1. q \in Seq(Script) /\ UniqueNames(q) BY DEF Sound
<1>2. k \in 1 .. Len(q) /\ Len(q) \in Nat /\ DOMAIN q = 1 .. Len(q) BY <1>1
<1>3. /\ r \in Seq(Script) /\ Len(r) = Len(q) - 1
      /\ \A i \in 1 .. Len(q) - 1 : r[i] = q[at(i)]
      BY <1>1, WithoutIs
<1>4. Sound(r) /\ (HasActiveIn(q) => HasActiveIn(r)) BY WithoutSound
<1> HIDE DEF r
<1>5. DOMAIN r = 1 .. Len(q) - 1 BY <1>3
<1>6. \A i \in DOMAIN r : at(i) \in DOMAIN q /\ at(i) # k BY <1>2, <1>5
<1>7. \A j \in DOMAIN q : j # k => \E i \in DOMAIN r : at(i) = j
  <2> SUFFICES ASSUME NEW j \in DOMAIN q, j # k PROVE \E i \in DOMAIN r : at(i) = j
      OBVIOUS
  <2>1. CASE j < k BY <2>1, <1>2, <1>5
  <2>2. CASE k < j
    <3>1. j - 1 \in DOMAIN r /\ at(j - 1) = j BY <2>2, <1>2, <1>5
    <3> QED BY <3>1
  <2> QED BY <2>1, <2>2, <1>2
<1> HIDE DEF at
<1>8. \A i \in DOMAIN r : r[i] = q[at(i)] BY <1>3, <1>5
<1>9. FilesOf(r) = F
  <2>1. ASSUME NEW f \in FilesOf(r) PROVE f \in F
    <3>1. PICK i \in DOMAIN r : f = FileOf(r[i]) BY <2>1 DEF FilesOf, FileOf
    <3>2. f = FileOf(q[at(i)]) /\ at(i) \in DOMAIN q /\ at(i) # k BY <1>6, <1>8, <3>1
    <3>3. f \in FilesOf(q) /\ f.name = q[at(i)].name BY <3>2 DEF FilesOf, FileOf
    <3>4. f.name # q[k].name BY <1>1, <3>2, <3>3 DEF UniqueNames
    <3> QED BY <3>3, <3>4
  <2>2. ASSUME NEW f \in F PROVE f \in FilesOf(r)
    <3>1. PICK j \in DOMAIN q : f = FileOf(q[j]) BY <2>2 DEF FilesOf, FileOf
    <3>2. j # k BY <2>2, <3>1 DEF FileOf
    <3>3. PICK i \in DOMAIN r : at(i) = j BY <1>7, <3>2
    <3>4. f = FileOf(r[i]) BY <1>8, <3>1, <3>3
    <3> QED BY <3>4 DEF FilesOf, FileOf
  <2> QED BY <2>1, <2>2
<1>10. ActiveOf(r) = ActiveOf(q)
  <2>1. CASE HasActiveIn(q)
    <3>1. PICK i \in DOMAIN r : r[i].active BY <1>4, <2>1 DEF HasActiveIn
    <3>2. at(i) \in DOMAIN q /\ q[at(i)].active BY <1>6, <1>8, <3>1
    <3> QED BY <1>4, <1>8, <3>1, <3>2, ActiveIs
  <2>2. CASE ~HasActiveIn(q)
    <3>1. ~HasActiveIn(r) BY <1>6, <1>8, <2>2 DEF HasActiveIn
    <3> QED BY <2>2, <3>1, NoActive
  <2> QED BY <2>1, <2>2
<1> QED BY <1>9, <1>10 DEF r

-----------------------------------------------------------------------------
(***************************************************************************)
(* The refinement mapping, and how the parts of a step map.                *)
(***************************************************************************)
FilesBar  == [u \in Users |-> FilesOf(scripts[u])]
ActiveBar == [u \in Users |-> ActiveOf(scripts[u])]
ReplyBar  == [reply EXCEPT !.list = {reply.list[i] : i \in DOMAIN reply.list}]

\* The slice of one account is replaced.
LEMMA MapsAccount ==
  ASSUME Inv, NEW u \in Users, NEW q, scripts' = [scripts EXCEPT ![u] = q]
  PROVE  /\ FilesBar' = [FilesBar EXCEPT ![u] = FilesOf(q)]
         /\ ActiveBar' = [ActiveBar EXCEPT ![u] = ActiveOf(q)]
<1>1. scripts \in [Users -> Seq(Script)] BY DEF Inv, TypeOK
<1>2. \A v \in Users : scripts'[v] = IF v = u THEN q ELSE scripts[v] BY <1>1
<1>3. FilesBar' = [FilesBar EXCEPT ![u] = FilesOf(q)]
  <2>1. FilesBar' = [v \in Users |-> FilesOf(scripts'[v])] BY DEF FilesBar
  <2>2. \A v \in Users : FilesOf(scripts'[v]) = IF v = u THEN FilesOf(q) ELSE FilesOf(scripts[v])
        BY <1>2
  <2> QED BY <2>1, <2>2 DEF FilesBar
<1>4. ActiveBar' = [ActiveBar EXCEPT ![u] = ActiveOf(q)]
  <2>1. ActiveBar' = [v \in Users |-> ActiveOf(scripts'[v])] BY DEF ActiveBar
  <2>2. \A v \in Users : ActiveOf(scripts'[v]) = IF v = u THEN ActiveOf(q) ELSE ActiveOf(scripts[v])
        BY <1>2
  <2> QED BY <2>1, <2>2 DEF ActiveBar
<1> QED BY <1>3, <1>4

LEMMA MapsSame ==
  UNCHANGED scripts => UNCHANGED <<FilesBar, ActiveBar>>
BY DEF FilesBar, ActiveBar

LEMMA CardinalitySame == \A S : Atomic!Cardinality(S) = Cardinality(S)
BY DEF Atomic!Cardinality, Cardinality, Atomic!IsFiniteSet, IsFiniteSet

\* What AtomicStore says of an account, of the slice.
LEMMA MapsNamed ==
  ASSUME NEW u \in Users, NEW n
  PROVE  n \in Atomic!Named(u) <=> Has(scripts[u], n)
<1>1. Atomic!Named(u) = NamesIn(scripts[u]) BY DEF Atomic!Named, NamesIn
<1> QED BY <1>1, NamesInIs

LEMMA MapsFull ==
  ASSUME Inv, NEW u \in Users
  PROVE  Atomic!Full(u) <=> AtLimit(scripts[u])
<1>1. Cardinality(FilesOf(scripts[u])) = Len(scripts[u])
      BY FilesCount DEF Inv, AllSound
<1>2. Atomic!Cardinality(FilesOf(scripts[u])) = Len(scripts[u]) BY <1>1, CardinalitySame
<1> QED BY <1>2 DEF Atomic!Full, AtLimit

LEMMA MapsExcept ==
  ASSUME NEW u \in Users, NEW n
  PROVE  Atomic!Except(u, n) = {f \in FilesOf(scripts[u]) : f.name # n}
BY DEF Atomic!Except

\* A result by its fields.
Rec(by, w, code, g, l, b) ==
    [by |-> by, what |-> w, code |-> code, got |-> g, list |-> l, updated |-> b]

WithGot(r, x)     == [r EXCEPT !.got = x]
WithList(r, x)    == [r EXCEPT !.list = x]
WithUpdated(r, x) == [r EXCEPT !.updated = x]

LEMMA RecFields ==
  ASSUME NEW by, NEW w, NEW code, NEW g, NEW l, NEW b, NEW x
  PROVE  /\ Rec(by, w, code, g, l, b).list = l
         /\ WithGot(Rec(by, w, code, g, l, b), x) = Rec(by, w, code, x, l, b)
         /\ WithList(Rec(by, w, code, g, l, b), x) = Rec(by, w, code, g, x, b)
         /\ WithUpdated(Rec(by, w, code, g, l, b), x) = Rec(by, w, code, g, l, x)
BY DEF Rec, WithGot, WithList, WithUpdated

\* The list of a result is a set to AtomicStore.
Elements(l) == {l[i] : i \in DOMAIN l}

LEMMA MapsRec ==
  ASSUME NEW by, NEW w, NEW code, NEW g, NEW l, NEW b, reply' = Rec(by, w, code, g, l, b)
  PROVE  ReplyBar' = Rec(by, w, code, g, Elements(l), b)
<1>1. reply'.list = l BY RecFields
<1>2. ReplyBar' = WithList(reply', Elements(reply'.list))
      BY DEF ReplyBar, Elements, WithList
<1> QED BY <1>1, <1>2, RecFields

\* What a result holds besides, unless it says otherwise.
NoText == ""
NoList == <<>>
NoSet  == {}
No     == FALSE

LEMMA ResultIsRec ==
  ASSUME NEW by, NEW w, NEW code
  PROVE  /\ Result(by, w, code) = Rec(by, w, code, NoText, NoList, No)
         /\ Atomic!Result(by, w, code) = Rec(by, w, code, NoText, NoSet, No)
BY DEF Result, Atomic!Result, Rec, No, NoText, NoList, NoSet

LEMMA NoElements == Elements(NoList) = NoSet
BY DEF Elements, NoList, NoSet

\* The results, each with the field that it sets.
LEMMA MapsResult ==
  ASSUME NEW by, NEW w, NEW code, reply' = Result(by, w, code)
  PROVE  ReplyBar' = Atomic!Result(by, w, code)
<1>1. reply' = Rec(by, w, code, NoText, NoList, No) BY ResultIsRec
<1>2. ReplyBar' = Rec(by, w, code, NoText, Elements(NoList), No) BY <1>1, MapsRec
<1> QED BY <1>2, ResultIsRec, NoElements

LEMMA MapsGot ==
  ASSUME NEW by, NEW w, NEW code, NEW g, reply' = WithGot(Result(by, w, code), g)
  PROVE  ReplyBar' = WithGot(Atomic!Result(by, w, code), g)
<1>1. reply' = Rec(by, w, code, g, NoList, No) BY ResultIsRec, RecFields
<1>2. ReplyBar' = Rec(by, w, code, g, NoSet, No) BY <1>1, MapsRec, NoElements
<1> QED BY <1>2, ResultIsRec, RecFields

LEMMA MapsUpdated ==
  ASSUME NEW by, NEW w, NEW code, NEW b, reply' = WithUpdated(Result(by, w, code), b)
  PROVE  ReplyBar' = WithUpdated(Atomic!Result(by, w, code), b)
<1>1. reply' = Rec(by, w, code, NoText, NoList, b) BY ResultIsRec, RecFields
<1>2. ReplyBar' = Rec(by, w, code, NoText, NoSet, b) BY <1>1, MapsRec, NoElements
<1> QED BY <1>2, ResultIsRec, RecFields

\* A result that does not say that a script was updated says that it was not.
LEMMA NotUpdated ==
  ASSUME NEW by, NEW w, NEW code
  PROVE  WithUpdated(Atomic!Result(by, w, code), No) = Atomic!Result(by, w, code)
BY ResultIsRec, RecFields

LEMMA MapsList ==
  ASSUME NEW by, NEW w, NEW code, NEW l, reply' = WithList(Result(by, w, code), l)
  PROVE  ReplyBar' = WithList(Atomic!Result(by, w, code), Elements(l))
<1>1. reply' = Rec(by, w, code, NoText, l, No) BY ResultIsRec, RecFields
<1>2. ReplyBar' = Rec(by, w, code, NoText, Elements(l), No) BY <1>1, MapsRec
<1> QED BY <1>2, ResultIsRec, RecFields

-----------------------------------------------------------------------------
(***************************************************************************)
(* What the writing operations do to the files and the active name.        *)
(***************************************************************************)
Others(q, n) == {f \in FilesOf(q) : f.name # n}

LEMMA EditedOthers ==
  ASSUME NEW q, Sound(q), NEW k \in DOMAIN q, NEW sc \in Script
  PROVE  FilesOf([q EXCEPT ![k] = sc]) = Others(q, q[k].name) \cup {FileOf(sc)}
BY EditedFiles DEF Others

\* Over a script that exists.
LEMMA PutOverMaps ==
  ASSUME NEW q, Sound(q), NEW n \in Names, Has(q, n), NEW x \in Contents, Vetted(x)
  PROVE  LET r == [q EXCEPT ![find(q, n)].content = x]
         IN  /\ FilesOf(r) = Others(q, n) \cup {[name |-> n, content |-> x]}
             /\ ActiveOf(r) = ActiveOf(q)
<1> DEFINE k == find(q, n)
           sc == [name |-> q[k].name, content |-> x, active |-> q[k].active]
           r == [q EXCEPT ![k].content = x]
           e == [q EXCEPT ![k] = sc]
<1>1. q \in Seq(Script) /\ UniqueNames(q) BY DEF Sound
<1>2. k \in DOMAIN q /\ q[k].name = n BY <1>1, FindIs
<1>3. q[k] \in Script BY <1>1, <1>2
<1> HIDE DEF k
<1>4. r = e BY <1>1, <1>2, PutOverIs
<1>5. sc \in Script /\ sc.name = n /\ sc.content = x /\ sc.active = q[k].active
      BY <1>2, <1>3, ScriptFields, ScriptRecord
<1>6. Sound(e) BY <1>4, PutOver DEF k
<1> HIDE DEF sc
<1>7. FilesOf(e) = Others(q, n) \cup {FileOf(sc)} BY <1>2, <1>5, EditedFiles DEF Others
<1>8. FileOf(sc) = [name |-> n, content |-> x] BY <1>5 DEF FileOf
<1>9. ActiveOf(e) = IF sc.active THEN sc.name ELSE IF q[k].active THEN "" ELSE ActiveOf(q)
      BY <1>2, <1>5, <1>6, EditedActiveOf
<1>10. q[k].active => ActiveOf(q) = n BY <1>2, ActiveIs
<1> HIDE DEF e, r
<1>11. ActiveOf(e) = ActiveOf(q) BY <1>5, <1>9, <1>10
<1> QED BY <1>4, <1>7, <1>8, <1>11 DEF k, r

LEMMA RenamedMaps ==
  ASSUME NEW q, Sound(q), NEW n \in Names, Has(q, n), NEW m \in Names, ~Has(q, m)
  PROVE  LET r == [q EXCEPT ![find(q, n)].name = m]
         IN  /\ FilesOf(r) = Others(q, n) \cup
                               {[name |-> m, content |-> f.content] :
                                   f \in {g \in FilesOf(q) : g.name = n}}
             /\ ActiveOf(r) = IF ActiveOf(q) = n THEN m ELSE ActiveOf(q)
<1> DEFINE k == find(q, n)
           sc == [name |-> m, content |-> q[k].content, active |-> q[k].active]
           r == [q EXCEPT ![k].name = m]
           e == [q EXCEPT ![k] = sc]
           G == {g \in FilesOf(q) : g.name = n}
<1>1. q \in Seq(Script) /\ UniqueNames(q) BY DEF Sound
<1>2. /\ k \in DOMAIN q /\ q[k].name = n
      /\ \A i \in DOMAIN q : q[i].name = n => i = k
      BY <1>1, FindIs
<1>3. q[k] \in Script BY <1>1, <1>2
<1>0. ActiveOf(q) = n <=> q[k].active BY ActiveNamed
<1> HIDE DEF k
<1>4. r = e BY <1>1, <1>2, RenamedIs
<1>5. sc \in Script /\ sc.name = m /\ sc.content = q[k].content /\ sc.active = q[k].active
      BY <1>3, ScriptFields, ScriptRecord
<1>6. Sound(e) BY <1>4, Renamed DEF k
<1> HIDE DEF sc
<1>7. FilesOf(e) = Others(q, n) \cup {FileOf(sc)} BY <1>2, <1>5, EditedFiles DEF Others
<1>8. G = {FileOf(q[k])}
  <2>1. FileOf(q[k]) \in G BY <1>2 DEF FilesOf, FileOf
  <2>2. \A g \in G : g = FileOf(q[k]) BY <1>2 DEF FilesOf, FileOf
  <2> QED BY <2>1, <2>2
<1>9. FileOf(q[k]).content = q[k].content BY DEF FileOf
<1>10. FileOf(sc) = [name |-> m, content |-> q[k].content] BY <1>5 DEF FileOf
<1> HIDE DEF G
<1>11. {[name |-> m, content |-> f.content] : f \in G} = {FileOf(sc)}
       BY <1>8, <1>9, <1>10
<1>12. ActiveOf(e) = IF sc.active THEN sc.name ELSE IF q[k].active THEN "" ELSE ActiveOf(q)
       BY <1>2, <1>5, <1>6, EditedActiveOf
<1> HIDE DEF e, r
<1>13. ActiveOf(e) = IF ActiveOf(q) = n THEN m ELSE ActiveOf(q) BY <1>0, <1>5, <1>12
<1> QED BY <1>4, <1>7, <1>11, <1>13 DEF k, r, G

LEMMA ActivatedMaps ==
  ASSUME NEW q, Sound(q), NEW n \in Names, Has(q, n)
  PROVE  FilesOf(Activated(q, n)) = FilesOf(q) /\ ActiveOf(Activated(q, n)) = n
<1> DEFINE k == find(q, n)
           d == Deactivated(q)
           sc == [name |-> d[k].name, content |-> d[k].content, active |-> TRUE]
           e == [d EXCEPT ![k] = sc]
<1>1. q \in Seq(Script) /\ UniqueNames(q) BY DEF Sound
<1>2. k \in DOMAIN q /\ q[k].name = n BY <1>1, FindIs
<1>3. Sound(d) /\ DOMAIN d = DOMAIN q /\ d[k].name = n BY <1>2, DeactivatedSound
<1>4. FilesOf(d) = FilesOf(q) BY DeactivatedFiles
<1>5. d \in Seq(Script) /\ k \in DOMAIN d /\ d[k] \in Script
  <2>1. d \in Seq(Script) BY <1>3 DEF Sound
  <2> HIDE DEF d, k
  <2> QED BY <1>2, <1>3, <2>1
<1>7. Activated(q, n) = [d EXCEPT ![k].active = TRUE] BY DEF Activated
<1> HIDE DEF d, k
<1>8. Activated(q, n) = e BY <1>5, <1>7, ActiveSetIs
<1>9. sc \in Script /\ sc.name = n /\ sc.content = d[k].content /\ sc.active
      BY <1>3, <1>5, ScriptFields, ScriptRecord
<1>10. Sound(e)
  <2> HIDE DEF e
  <2> QED BY <1>8, ActivatedSound
<1> HIDE DEF sc
<1>11. FilesOf(e) = Others(d, n) \cup {FileOf(sc)}
  <2>1. FilesOf([d EXCEPT ![k] = sc]) = Others(d, d[k].name) \cup {FileOf(sc)}
    <3>1. Sound(d) /\ k \in DOMAIN d /\ sc \in Script BY <1>3, <1>5, <1>9
    <3> HIDE DEF e
    <3> QED BY <3>1, EditedOthers, Zenon
  <2> QED BY <1>3, <2>1
<1>12. FileOf(sc) = FileOf(d[k]) BY <1>3, <1>9 DEF FileOf
<1>13. FileOf(d[k]) \in FilesOf(d) BY <1>5 DEF FilesOf, FileOf
<1>14. \A f \in FilesOf(d) : f.name = n => f = FileOf(d[k])
  <2> SUFFICES ASSUME NEW f \in FilesOf(d), f.name = n PROVE f = FileOf(d[k]) OBVIOUS
  <2>1. PICK i \in DOMAIN d : f = FileOf(d[i]) BY DEF FilesOf, FileOf
  <2>2. d[i].name = n BY <2>1 DEF FileOf
  <2>3. i = k BY <1>3, <1>5, <2>2 DEF Sound, UniqueNames
  <2> QED BY <2>1, <2>3
<1>15. FilesOf(e) = FilesOf(d) BY <1>11, <1>12, <1>13, <1>14 DEF Others
<1>16. e[k] = sc /\ k \in DOMAIN e BY <1>5
<1> HIDE DEF e
<1>18. ActiveOf(e) = n BY <1>9, <1>10, <1>16, ActiveIs
<1> QED BY <1>4, <1>8, <1>15, <1>18

LEMMA AppendedMaps ==
  ASSUME NEW q, Sound(q), NEW n \in Names, ~Has(q, n), NEW x \in Contents, Vetted(x),
         NEW a \in BOOLEAN, a => ~HasActiveIn(q)
  PROVE  LET r == Append(q, [name |-> n, content |-> x, active |-> a])
         IN  /\ FilesOf(r) = Others(q, n) \cup {[name |-> n, content |-> x]}
             /\ ActiveOf(r) = IF a THEN n ELSE ActiveOf(q)
<1> DEFINE sc == [name |-> n, content |-> x, active |-> a]
<1>1. sc \in Script /\ sc.name = n /\ sc.content = x /\ sc.active = a BY ScriptRecord
<1> HIDE DEF sc
<1>2. Sound(Append(q, sc)) BY <1>1, AppendSound
<1>3. /\ FilesOf(Append(q, sc)) = FilesOf(q) \cup {FileOf(sc)}
      /\ ActiveOf(Append(q, sc)) = IF sc.active THEN sc.name ELSE ActiveOf(q)
      BY <1>1, <1>2, AppendFiles
<1>4. FileOf(sc) = [name |-> n, content |-> x] BY <1>1 DEF FileOf
<1>5. Others(q, n) = FilesOf(q)
  <2>1. n \notin NamesIn(q) BY NamesInIs
  <2> QED BY <2>1 DEF NamesIn, Others
<1> QED BY <1>1, <1>3, <1>4, <1>5 DEF sc

\* The active name is a script's name.
LEMMA ActiveHas ==
  ASSUME NEW q, Sound(q), ActiveOf(q) # ""
  PROVE  Has(q, ActiveOf(q))
<1>1. HasActiveIn(q) BY NoActive
<1>2. PICK i \in DOMAIN q : q[i].active BY <1>1 DEF HasActiveIn
<1>3. ActiveOf(q) = q[i].name BY <1>2, ActiveIs
<1> QED BY <1>3 DEF Has

\* The slice z has what the slice q has, and the script n seeded.
SeedOf(z, q, n, x, a) ==
    /\ FilesOf(z) = Others(q, n) \cup {[name |-> n, content |-> x]}
    /\ ActiveOf(z) = IF a THEN n ELSE IF ActiveOf(q) = n THEN "" ELSE ActiveOf(q)

\* AddScript over a script of a slice in which no other is active.
LEMMA SeededMaps ==
  ASSUME NEW q, Sound(q), NEW n \in Names, Has(q, n), NEW x \in Contents, Vetted(x),
         NEW a \in BOOLEAN, a => ~HasActiveIn(q)
  PROVE  SeedOf(Seeded(q, find(q, n), x, a), q, n, x, a)
<1> DEFINE k == find(q, n)
           sc == [name |-> q[k].name, content |-> x, active |-> a]
           r == Seeded(q, k, x, a)
           e == [q EXCEPT ![k] = sc]
<1>1. q \in Seq(Script) /\ UniqueNames(q) BY DEF Sound
<1>2. k \in DOMAIN q /\ q[k].name = n BY <1>1, FindIs
<1>3. q[k] \in Script BY <1>1, <1>2
<1>0. ActiveOf(q) = n <=> q[k].active BY ActiveNamed
<1> HIDE DEF k
<1>4. r = e BY <1>1, <1>2, SeededIs
<1>5. sc \in Script /\ sc.name = n /\ sc.content = x /\ sc.active = a
      BY <1>2, <1>3, ScriptFields, ScriptRecord
<1> HIDE DEF sc
<1>6. Sound(e)
  <2>1. sc.active => \A i \in DOMAIN q : q[i].active => i = k BY <1>5 DEF HasActiveIn
  <2>2. \A i \in DOMAIN q : q[i].name = sc.name => i = k BY <1>1, <1>2, <1>5 DEF UniqueNames
  <2>3. Vetted(sc.content) BY <1>5
  <2> QED BY <1>2, <1>5, <2>1, <2>2, <2>3, EditedSound
<1>7. FilesOf(e) = Others(q, n) \cup {FileOf(sc)} BY <1>2, <1>5, EditedFiles DEF Others
<1>8. FileOf(sc) = [name |-> n, content |-> x] BY <1>5 DEF FileOf
<1>9. ActiveOf(e) = IF sc.active THEN sc.name ELSE IF q[k].active THEN "" ELSE ActiveOf(q)
      BY <1>2, <1>5, <1>6, EditedActiveOf
<1> HIDE DEF e, r
<1>10. ActiveOf(e) = IF a THEN n ELSE IF ActiveOf(q) = n THEN "" ELSE ActiveOf(q)
       BY <1>0, <1>5, <1>9
<1> QED BY <1>4, <1>7, <1>8, <1>10 DEF k, r, SeedOf

LEMMA SeedMaps ==
  ASSUME NEW q, Sound(q), NEW n \in Names, NEW x \in Contents, Vetted(x),
         NEW a \in BOOLEAN, a => ~HasActiveIn(q)
  PROVE  SeedOf(IF Has(q, n) THEN Seeded(q, find(q, n), x, a)
                ELSE Append(q, [name |-> n, content |-> x, active |-> a]), q, n, x, a)
<1>1. CASE Has(q, n) BY <1>1, SeededMaps
<1>2. CASE ~Has(q, n)
  <2>1. ActiveOf(q) # n BY <1>2, ActiveHas, StoreAssumption
  <2> QED BY <1>2, <2>1, AppendedMaps DEF SeedOf
<1> QED BY <1>1, <1>2

LEMMA AddedMaps ==
  ASSUME NEW q, Sound(q), NEW n \in Names, NEW x \in Contents, Vetted(x), NEW a \in BOOLEAN
  PROVE  SeedOf(Added(q, n, x, a), q, n, x, a)
<1> DEFINE r == IF a THEN Deactivated(q) ELSE q
           z == Added(q, n, x, a)
<1>1. Sound(r) /\ (a => ~HasActiveIn(r)) BY DeactivatedSound DEF HasActiveIn
<1>2. FilesOf(r) = FilesOf(q) /\ (~a => r = q) BY DeactivatedFiles
<1>3. z = IF Has(r, n) THEN Seeded(r, find(r, n), x, a)
          ELSE Append(r, [name |-> n, content |-> x, active |-> a])
      BY DEF Added, Seeded
<1>4. Others(r, n) = Others(q, n) BY <1>2 DEF Others
<1> HIDE DEF r, z
<1>5. SeedOf(z, r, n, x, a) BY <1>1, <1>3, SeedMaps
<1> QED BY <1>2, <1>4, <1>5 DEF SeedOf, z

-----------------------------------------------------------------------------
(***************************************************************************)
(* Every action is a step of AtomicStore.                                  *)
(***************************************************************************)
AtomicStep == [Atomic!Next]_(Atomic!vars)

\* A critical section that says nothing to its session yet.
LEMMA Silent ==
  ASSUME UNCHANGED <<known, password, scripts, user, reply>>
  PROVE  AtomicStep
BY DEF AtomicStep, Atomic!vars

LEMMA Operates ==
  ASSUME NEW s \in Sessions, user[s] # Nobody, Atomic!Operation(s, user[s]), AccountsKept
  PROVE  AtomicStep
BY DEF AtomicStep, Atomic!Next, Atomic!AccountsKept, AccountsKept

LEMMA Same == ASSUME UNCHANGED scripts PROVE Atomic!FilesKept
BY MapsSame DEF Atomic!FilesKept, FilesBar, ActiveBar

LEMMA Says == ASSUME NEW s, NEW w, NEW code, Returns(s, w, code) PROVE Atomic!Returns(s, w, code)
<1>1. ReplyBar' = Atomic!Result(s, w, code) BY MapsResult DEF Returns
<1> QED BY <1>1 DEF Atomic!Returns, ReplyBar

\* A refusal, of the kinds that AtomicStore has.
LEMMA Refuses ==
  ASSUME NEW s \in Sessions, user[s] # Nobody, AccountsKept, UNCHANGED scripts,
         NEW w, NEW code, Returns(s, w, code),
         \/ /\ w \in {"GET", "SETACTIVE", "DELETE", "RENAME"} /\ code = "NONEXISTENT"
            /\ \E n \in Names : n \notin Atomic!Named(user[s])
         \/ /\ w = "DELETE" /\ code = "ACTIVE"
            /\ \E n \in Names : n \in Atomic!Named(user[s]) /\ n = ActiveBar[user[s]]
         \/ /\ w = "RENAME" /\ code = "ALREADYEXISTS"
            /\ \E m \in Names : m \in Atomic!Named(user[s])
         \/ /\ w \in {"PUT", "HAVESPACE"} /\ code = "QUOTA" /\ Atomic!Full(user[s])
            /\ \E n \in Names : n \notin Atomic!Named(user[s])
         \/ /\ w \in {"PUT", "SETACTIVE"}
            /\ \E c \in Contents : ~Accepted(c) /\ code = Verdict[c]
  PROVE  AtomicStep
<1>1. Atomic!Returns(s, w, code) BY Says
<1>2. Atomic!FilesKept BY Same
<1>3. Atomic!Refuse(s, user[s])
      BY <1>1, <1>2 DEF Atomic!Refuse, ActiveBar, Accepted
<1> QED BY <1>3, Operates DEF Atomic!Operation

LEMMA EmptyMaps == FilesOf(<<>>) = {} /\ ActiveOf(<<>>) = ""
BY DEF FilesOf, ActiveOf

LEMMA BarsAt ==
  ASSUME NEW u \in Users
  PROVE  FilesBar[u] = FilesOf(scripts[u]) /\ ActiveBar[u] = ActiveOf(scripts[u])
BY DEF FilesBar, ActiveBar

LEMMA HostMaps == ASSUME Inv, Host PROVE AtomicStep
<1>1. ASSUME NEW u \in Users, NEW p \in Passwords, AddUser(u, p) PROVE AtomicStep
  <2>1. /\ known' = known \cup {u} /\ password' = [password EXCEPT ![u] = p]
        /\ scripts' = [scripts EXCEPT ![u] = <<>>]
        /\ Returns(Nobody, "ADDUSER", "OK") /\ UNCHANGED user
        BY <1>1 DEF AddUser
  <2>2. /\ FilesBar' = [FilesBar EXCEPT ![u] = {}]
        /\ ActiveBar' = [ActiveBar EXCEPT ![u] = ""]
        BY <2>1, MapsAccount, EmptyMaps
  <2>3. Atomic!AddUser(u, p)
        BY <2>1, <2>2, Says DEF Atomic!AddUser, FilesBar, ActiveBar
  <2> QED BY <2>3 DEF AtomicStep, Atomic!Next
<1>2. ASSUME NEW u \in Users, NEW n \in Names, NEW x \in SeedContents, NEW a \in BOOLEAN,
             AddScript(u, n, x, a)
      PROVE  AtomicStep
  <2> DEFINE q == scripts[u]  z == Added(q, n, x, a)
  <2>1. /\ u \in known /\ scripts' = [scripts EXCEPT ![u] = z]
        /\ Returns(Nobody, "ADDSCRIPT", "OK") /\ AccountsKept
        BY <1>2 DEF AddScript
  <2>2. Sound(q) /\ x \in Contents /\ Vetted(x)
        BY StoreAssumption DEF Inv, AllSound, Vetted
  <2> HIDE DEF q, z
  <2>3. SeedOf(z, q, n, x, a) BY <2>2, AddedMaps DEF z
  <2>4. /\ FilesBar' = [FilesBar EXCEPT ![u] = FilesOf(z)]
        /\ ActiveBar' = [ActiveBar EXCEPT ![u] = ActiveOf(z)]
        BY <2>1, MapsAccount
  <2>5. FilesOf(z) = Atomic!Except(u, n) \cup {Atomic!File(n, x)}
        BY <2>3, MapsExcept DEF SeedOf, Others, Atomic!File, q
  <2>6. ActiveOf(z) = IF a THEN n ELSE IF ActiveBar[u] = n THEN "" ELSE ActiveBar[u]
        BY <2>3, BarsAt DEF SeedOf, q
  <2>7. Atomic!AddScript(u, n, x, a)
    <3>1. FilesBar' = [FilesBar EXCEPT ![u] = Atomic!Except(u, n) \cup {Atomic!File(n, x)}]
          BY <2>4, <2>5
    <3>2. ActiveBar' = [ActiveBar EXCEPT ![u] =
                           IF a THEN n ELSE IF ActiveBar[u] = n THEN "" ELSE ActiveBar[u]]
          BY <2>4, <2>6
    <3>3. Atomic!Returns(Nobody, "ADDSCRIPT", "OK") /\ Atomic!AccountsKept
          BY <2>1, Says DEF Atomic!AccountsKept, AccountsKept
    <3> QED BY <2>1, <3>1, <3>2, <3>3 DEF Atomic!AddScript, FilesBar, ActiveBar
  <2> QED BY <2>7 DEF AtomicStep, Atomic!Next
<1> QED BY <1>1, <1>2 DEF Host

LEMMA LogsInMaps == ASSUME Inv, NEW s \in Sessions, LogsIn(s) PROVE AtomicStep
<1>1. ASSUME NEW w \in {"LOGIN", "AUTHENTICATE"}, Returns(s, w, "NO"), AccountsKept,
             UNCHANGED scripts
      PROVE  AtomicStep
  <2>1. Atomic!Returns(s, w, "NO") /\ Atomic!AccountsKept /\ Atomic!FilesKept
        BY <1>1, Says, Same DEF Atomic!AccountsKept, AccountsKept
  <2> QED BY <2>1 DEF AtomicStep, Atomic!Next
<1>2. ASSUME NEW u \in Users, NEW p \in Passwords, NEW w \in {"LOGIN", "AUTHENTICATE"},
             login(s, u, p, w)
      PROVE  AtomicStep
  <2>1. CASE u \in known /\ password[u] = p
    <3>1. /\ user[s] = Nobody /\ user' = [user EXCEPT ![s] = u] /\ Returns(s, w, "OK")
          /\ UNCHANGED <<known, password, scripts>>
          BY <1>2, <2>1 DEF login
    <3>2. Atomic!LogIn(s, u, p, w) BY <2>1, <3>1, Says, Same DEF Atomic!LogIn
    <3> QED BY <3>2 DEF AtomicStep, Atomic!Next
  <2>2. CASE ~(u \in known /\ password[u] = p)
    BY <1>1, <1>2, <2>2 DEF login, AccountsKept
  <2> QED BY <2>1, <2>2
<1>3. ASSUME NEW u \in Users, NEW p \in Passwords, Login(s, u, p) PROVE AtomicStep
      BY <1>2, <1>3 DEF Login
<1>4. ASSUME NEW u \in Users, NEW p \in Passwords, NEW own \in BOOLEAN,
             AuthenticatePlain(s, own, u, p)
      PROVE  AtomicStep
  <2>1. CASE own BY <1>2, <1>4, <2>1 DEF AuthenticatePlain
  <2>2. CASE ~own BY <1>1, <1>4, <2>2 DEF AuthenticatePlain, AccountsKept
  <2> QED BY <2>1, <2>2
<1> QED BY <1>3, <1>4 DEF LogsIn

\* The list of an account: its names, and whether each is the active one.
LEMMA ListMaps ==
  ASSUME NEW q, Sound(q)
  PROVE  {[name |-> q[i].name, active |-> q[i].active] : i \in DOMAIN q}
           = {[name |-> n, active |-> n = ActiveOf(q)] : n \in NamesIn(q)}
<1> DEFINE A == {[name |-> q[i].name, active |-> q[i].active] : i \in DOMAIN q}
           B == {[name |-> n, active |-> n = ActiveOf(q)] : n \in NamesIn(q)}
<1>1. ASSUME NEW i \in DOMAIN q
      PROVE  q[i].active = (q[i].name = ActiveOf(q)) /\ q[i].name \in NamesIn(q)
  <2>1. Has(q, q[i].name) BY DEF Has
  <2>2. q \in Seq(Script) /\ UniqueNames(q) BY DEF Sound
  <2>3. i = find(q, q[i].name) BY <2>1, <2>2, FindIs
  <2>4. ActiveOf(q) = q[i].name <=> q[i].active BY <2>1, <2>3, ActiveNamed
  <2>5. q[i] \in Script BY <2>2
  <2>6. q[i].active \in BOOLEAN BY <2>5, ScriptFields
  <2> QED BY <2>1, <2>4, <2>6, NamesInIs
<1>2. ASSUME NEW n \in NamesIn(q) PROVE \E i \in DOMAIN q : q[i].name = n
      BY <1>2, NamesInIs DEF Has
<1>3. \A e \in A : e \in B BY <1>1
<1>4. \A e \in B : e \in A
  <2> SUFFICES ASSUME NEW n \in NamesIn(q)
               PROVE  [name |-> n, active |-> n = ActiveOf(q)] \in A
      OBVIOUS
  <2>1. PICK i \in DOMAIN q : q[i].name = n BY <1>2
  <2> QED BY <1>1, <2>1
<1> QED BY <1>3, <1>4

LEMMA ReadingMaps == ASSUME Inv, NEW s \in Sessions, Reading(s) PROVE AtomicStep
<1> DEFINE u == user[s]  q == scripts[u]
<1>1. Called(s) /\ AccountsKept /\ UNCHANGED scripts
      BY DEF Reading, Reads, ListScripts, GetScript, HaveSpace, CheckScript
<1>2. u \in Users /\ u # Nobody /\ Sound(q) BY <1>1, CalledFacts DEF Of
<1>3. Of(s) = q BY DEF Of
<1>4. Atomic!FilesKept BY <1>1, Same
<1>5. \A n : n \in Atomic!Named(u) <=> Has(q, n) BY <1>2, MapsNamed
<1>6. Atomic!Full(u) <=> AtLimit(q) BY <1>2, MapsFull
<1>7. Atomic!Operation(s, u) => AtomicStep BY <1>1, <1>2, Operates
<1> HIDE DEF u, q
<1>8. CASE ListScripts(s)
  <2> DEFINE l == [i \in DOMAIN q |-> [name |-> q[i].name, active |-> q[i].active]]
  <2>1. reply' = WithList(Result(s, "LIST", "OK"), l)
        BY <1>3, <1>8 DEF ListScripts, WithList
  <2>2. Elements(l) = {[name |-> q[i].name, active |-> q[i].active] : i \in DOMAIN q}
        BY DEF Elements
  <2>3. Elements(l) = {[name |-> n, active |-> n = ActiveOf(q)] : n \in NamesIn(q)}
        BY <1>2, <2>2, ListMaps
  <2> HIDE DEF l
  <2>4. ReplyBar' = WithList(Atomic!Result(s, "LIST", "OK"), Elements(l)) BY <2>1, MapsList
  <2>5. Atomic!Named(u) = NamesIn(q) BY <1>2 DEF Atomic!Named, NamesIn, q
  <2>6. ActiveBar[u] = ActiveOf(q) BY <1>2, BarsAt DEF q
  <2>7. Elements(l) = {[name |-> n, active |-> n = ActiveBar[u]] : n \in Atomic!Named(u)}
        BY <2>3, <2>5, <2>6
  <2>8. Atomic!List(s, u)
        BY <1>4, <2>4, <2>7 DEF Atomic!List, ReplyBar, ActiveBar, WithList
  <2> QED BY <1>7, <2>8 DEF Atomic!Operation
<1>9. ASSUME NEW n \in Names, GetScript(s, n) PROVE AtomicStep
  <2>1. CASE Has(q, n)
    <3> DEFINE k == find(q, n)
    <3>1. q \in Seq(Script) /\ UniqueNames(q) BY <1>2 DEF Sound
    <3>2. k \in DOMAIN q /\ q[k].name = n BY <2>1, <3>1, FindIs
    <3>3. reply' = WithGot(Result(s, "GET", "OK"), q[k].content)
          BY <1>3, <1>9, <2>1 DEF GetScript, WithGot
    <3> HIDE DEF k
    <3>4. ReplyBar' = WithGot(Atomic!Result(s, "GET", "OK"), q[k].content)
          BY <3>3, MapsGot
    <3> DEFINE f == [name |-> q[k].name, content |-> q[k].content]
    <3>5. f \in FilesOf(q) /\ f.name = n /\ f.content = q[k].content
          BY <3>2 DEF FilesOf
    <3> HIDE DEF f
    <3>6. f \in FilesBar[u] BY <1>2, <3>5, BarsAt DEF q
    <3>7. ReplyBar' = WithGot(Atomic!Result(s, "GET", "OK"), f.content) BY <3>4, <3>5
    <3>8. Atomic!Get(s, u, n)
          BY <1>4, <3>5, <3>6, <3>7 DEF Atomic!Get, ReplyBar, FilesBar, WithGot
    <3> QED BY <1>7, <3>8 DEF Atomic!Operation
  <2>2. CASE ~Has(q, n)
    <3>1. Returns(s, "GET", "NONEXISTENT") BY <1>3, <1>9, <2>2 DEF GetScript
    <3> QED BY <1>1, <1>2, <1>5, <2>2, <3>1, Refuses DEF u
  <2> QED BY <2>1, <2>2
<1>10. ASSUME NEW n \in Names, HaveSpace(s, n) PROVE AtomicStep
  <2>1. CASE ~Has(q, n) /\ AtLimit(q)
    <3>1. Returns(s, "HAVESPACE", "QUOTA") BY <1>3, <1>10, <2>1 DEF HaveSpace
    <3> QED BY <1>1, <1>2, <1>5, <1>6, <2>1, <3>1, Refuses DEF u
  <2>2. CASE Has(q, n) \/ ~AtLimit(q)
    <3>1. Returns(s, "HAVESPACE", "OK") BY <1>3, <1>10, <2>2 DEF HaveSpace
    <3>2. Atomic!Answer(s, u) BY <1>4, <1>5, <1>6, <2>2, <3>1, Says DEF Atomic!Answer
    <3> QED BY <1>7, <3>2 DEF Atomic!Operation
  <2> QED BY <2>1, <2>2
<1>11. ASSUME NEW x \in Contents, CheckScript(s, x) PROVE AtomicStep
  <2>1. Atomic!Returns(s, "CHECK", Verdict[x]) BY <1>11, Says DEF CheckScript
  <2>2. Atomic!Answer(s, u) BY <1>4, <2>1 DEF Atomic!Answer
  <2> QED BY <1>7, <2>2 DEF Atomic!Operation
<1> QED BY <1>8, <1>9, <1>10, <1>11 DEF Reading

\* A session writes its account.
LEMMA WriteMaps ==
  ASSUME Inv, NEW s \in Sessions, user[s] \in Users, NEW r, Store(s, r)
  PROVE  /\ FilesBar' = [FilesBar EXCEPT ![user[s]] = FilesOf(r)]
         /\ ActiveBar' = [ActiveBar EXCEPT ![user[s]] = ActiveOf(r)]
BY MapsAccount DEF Store

LEMMA ActiveBarSame ==
  ASSUME NEW u \in Users, ActiveBar' = [ActiveBar EXCEPT ![u] = ActiveOf(scripts[u])]
  PROVE  ActiveBar' = ActiveBar
BY DEF ActiveBar

LEMMA FilesBarSame ==
  ASSUME NEW u \in Users, FilesBar' = [FilesBar EXCEPT ![u] = FilesOf(scripts[u])]
  PROVE  FilesBar' = FilesBar
BY DEF FilesBar

Yes == TRUE

\* The script c is stored under the name n.
LEMMA PutMaps ==
  ASSUME Inv, NEW s \in Sessions, user[s] \in Users, AccountsKept,
         NEW n \in Names, NEW x \in Contents, Accepted(x),
         Has(scripts[user[s]], n) \/ ~AtLimit(scripts[user[s]]),
         NEW r, Store(s, r),
         FilesOf(r) = Others(scripts[user[s]], n) \cup {[name |-> n, content |-> x]},
         ActiveOf(r) = ActiveOf(scripts[user[s]]),
         NEW b, b = Has(scripts[user[s]], n),
         ReplyBar' = WithUpdated(Atomic!Result(s, "PUT", Verdict[x]), b)
  PROVE  AtomicStep
<1> DEFINE u == user[s]
<1>1. /\ FilesBar' = [FilesBar EXCEPT ![u] = FilesOf(r)]
      /\ ActiveBar' = [ActiveBar EXCEPT ![u] = ActiveOf(r)]
      BY WriteMaps
<1>2. ActiveBar' = ActiveBar BY <1>1, ActiveBarSame
<1>3. FilesOf(r) = Atomic!Except(u, n) \cup {Atomic!File(n, x)}
      BY MapsExcept DEF Others, Atomic!File
<1>4. FilesBar' = [FilesBar EXCEPT ![u] = Atomic!Except(u, n) \cup {Atomic!File(n, x)}]
      BY <1>1, <1>3
<1>5. b = (n \in Atomic!Named(u))
  <2>1. n \in Atomic!Named(u) <=> Has(scripts[u], n) BY MapsNamed
  <2>2. Has(scripts[u], n) \in BOOLEAN BY DEF Has
  <2> QED BY <2>1, <2>2
<1>6. n \in Atomic!Named(u) \/ ~Atomic!Full(u) BY MapsNamed, MapsFull
<1>7. ReplyBar' = WithUpdated(Atomic!Result(s, "PUT", Verdict[x]), n \in Atomic!Named(u))
      BY <1>5
<1>8. Atomic!Put(s, u, n, x)
      BY <1>2, <1>4, <1>6, <1>7
      DEF Atomic!Put, Accepted, ReplyBar, FilesBar, ActiveBar, WithUpdated
<1>9. user[s] # Nobody BY StoreAssumption
<1> QED BY <1>8, <1>9, Operates DEF Atomic!Operation

LEMMA PuttingMaps == ASSUME Inv, NEW s \in Sessions, Putting(s) PROVE AtomicStep
<1>1. ASSUME NEW n \in Names, NEW x \in Contents, PutValidates(s, n, x) PROVE AtomicStep
  <2>1. Called(s) /\ AccountsKept /\ UNCHANGED scripts BY <1>1 DEF PutValidates
  <2>2. CASE Accepted(x) BY <1>1, <2>1, <2>2, Silent DEF PutValidates, AccountsKept
  <2>3. CASE ~Accepted(x)
    <3>1. Returns(s, "PUT", Verdict[x]) BY <1>1, <2>3 DEF PutValidates
    <3>2. user[s] # Nobody BY <2>1 DEF Called
    <3> QED BY <2>1, <2>3, <3>1, <3>2, Refuses
  <2> QED BY <2>2, <2>3
<1>2. CASE PutStores(s)
  <2> DEFINE q == scripts[user[s]]  n == op[s].name  x == op[s].content
  <2>1. op[s].pc = "put" /\ AccountsKept BY <1>2 DEF PutStores
  <2>2. user[s] \in Users /\ n \in Names /\ x \in Contents /\ Sound(q)
        BY <2>1, BusyFacts DEF Of
  <2>3. Accepted(x) /\ Vetted(x) BY <2>1, <2>2 DEF Inv, TypeOK, Vetted
  <2>4. user[s] # Nobody BY <2>2, StoreAssumption
  <2>5. CASE Has(q, n)
    <3> DEFINE r == [q EXCEPT ![find(q, n)].content = x]
    <3>1. /\ Store(s, r)
          /\ reply' = [Result(s, "PUT", Verdict[x]) EXCEPT !.updated = TRUE]
          BY <1>2, <2>5 DEF PutStores, Of
    <3>2. reply' = WithUpdated(Result(s, "PUT", Verdict[x]), Yes)
          BY <3>1 DEF WithUpdated, Yes
    <3> HIDE DEF q, n, x
    <3>3. ReplyBar' = WithUpdated(Atomic!Result(s, "PUT", Verdict[x]), Yes)
          BY <3>2, MapsUpdated
    <3>4. Yes = Has(q, n) BY <2>5, Zenon DEF Yes, Has
    <3>5. /\ FilesOf(r) = Others(q, n) \cup {[name |-> n, content |-> x]}
          /\ ActiveOf(r) = ActiveOf(q)
          BY <2>2, <2>3, <2>5, PutOverMaps
    <3> HIDE DEF r
    <3> QED BY <2>1, <2>2, <2>3, <2>5, <3>1, <3>3, <3>4, <3>5, PutMaps DEF q
  <2>6. CASE ~Has(q, n) /\ AtLimit(q)
    <3>1. Returns(s, "PUT", "QUOTA") /\ UNCHANGED scripts BY <1>2, <2>6 DEF PutStores, Of
    <3>2. n \notin Atomic!Named(user[s]) /\ Atomic!Full(user[s])
          BY <2>2, <2>6, MapsNamed, MapsFull
    <3> QED BY <2>1, <2>2, <2>4, <3>1, <3>2, Refuses
  <2>7. CASE ~Has(q, n) /\ ~AtLimit(q)
    <3> DEFINE r == Append(q, [name |-> n, content |-> x, active |-> No])
    <3>1. Store(s, r) /\ Returns(s, "PUT", Verdict[x]) BY <1>2, <2>7 DEF PutStores, Of, No
    <3> HIDE DEF q, n, x
    <3>2. ReplyBar' = WithUpdated(Atomic!Result(s, "PUT", Verdict[x]), No)
          BY <3>1, MapsResult, NotUpdated DEF Returns
    <3>3. No = Has(q, n) BY <2>7, Zenon DEF No, Has
    <3>0. No \in BOOLEAN /\ ~No BY DEF No
    <3>4. /\ FilesOf(r) = Others(q, n) \cup {[name |-> n, content |-> x]}
          /\ ActiveOf(r) = ActiveOf(q)
          BY <2>2, <2>3, <2>7, <3>0, AppendedMaps
    <3> HIDE DEF r
    <3> QED BY <2>1, <2>2, <2>3, <2>7, <3>1, <3>2, <3>3, <3>4, PutMaps DEF q
  <2> QED BY <2>5, <2>6, <2>7
<1> QED BY <1>1, <1>2 DEF Putting

LEMMA ActivatingMaps == ASSUME Inv, NEW s \in Sessions, Activating(s) PROVE AtomicStep
<1> DEFINE u == user[s]  q == scripts[u]
<1>1. ASSUME NEW n, Store(s, IF n = "" THEN Deactivated(q) ELSE Activated(q, n)),
             u \in Users, Sound(q), (n \in Names /\ Has(q, n)) \/ n = ""
      PROVE  FilesBar' = FilesBar /\ ActiveBar' = [ActiveBar EXCEPT ![u] = n]
  <2> DEFINE r == IF n = "" THEN Deactivated(q) ELSE Activated(q, n)
  <2>1. FilesOf(r) = FilesOf(q) /\ ActiveOf(r) = n
    <3>1. CASE n = "" BY <1>1, <3>1, DeactivatedFiles
    <3>2. CASE n # "" BY <1>1, <3>2, ActivatedMaps
    <3> QED BY <3>1, <3>2
  <2> HIDE DEF r
  <2>2. Store(s, r) BY <1>1 DEF r
  <2>3. /\ FilesBar' = [FilesBar EXCEPT ![u] = FilesOf(r)]
        /\ ActiveBar' = [ActiveBar EXCEPT ![u] = ActiveOf(r)]
        BY <1>1, <2>2, WriteMaps
  <2> QED BY <1>1, <2>1, <2>3, FilesBarSame
<1>2. CASE DeactivateAll(s)
  <2>1. /\ Called(s) /\ Store(s, Deactivated(q)) /\ Returns(s, "DEACTIVATE", "OK")
        /\ AccountsKept
        BY <1>2 DEF DeactivateAll, Of
  <2>2. u \in Users /\ u # Nobody /\ Sound(q) BY <2>1, CalledFacts DEF Of
  <2>3. FilesBar' = FilesBar /\ ActiveBar' = [ActiveBar EXCEPT ![u] = ""]
        BY <1>1, <2>1, <2>2
  <2>4. Atomic!Deactivate(s, u)
        BY <2>1, <2>3, Says DEF Atomic!Deactivate, FilesBar, ActiveBar
  <2> QED BY <2>1, <2>2, <2>4, Operates DEF Atomic!Operation
<1>3. ASSUME NEW n \in Names, SetActiveReads(s, n) PROVE AtomicStep
  <2>1. Called(s) /\ AccountsKept /\ UNCHANGED scripts BY <1>3 DEF SetActiveReads
  <2>2. u \in Users /\ u # Nobody BY <2>1, CalledFacts
  <2>3. CASE Has(q, n) BY <1>3, <2>1, <2>3, Silent DEF SetActiveReads, AccountsKept, Of
  <2>4. CASE ~Has(q, n)
    <3>1. Returns(s, "SETACTIVE", "NONEXISTENT") BY <1>3, <2>4 DEF SetActiveReads, Of
    <3>2. n \notin Atomic!Named(u) BY <2>2, <2>4, MapsNamed
    <3> QED BY <2>1, <2>2, <3>1, <3>2, Refuses
  <2> QED BY <2>3, <2>4
<1>4. CASE SetActiveValidates(s)
  <2> DEFINE x == op[s].content
  <2>1. op[s].pc = "validate" /\ AccountsKept /\ UNCHANGED scripts
        BY <1>4 DEF SetActiveValidates
  <2>2. u \in Users /\ u # Nobody /\ x \in Contents
        BY <2>1, BusyFacts, StoreAssumption
  <2>3. CASE Accepted(x) BY <1>4, <2>1, <2>3, Silent DEF SetActiveValidates, AccountsKept
  <2>4. CASE ~Accepted(x)
    <3>1. Returns(s, "SETACTIVE", Verdict[x]) BY <1>4, <2>4 DEF SetActiveValidates
    <3> QED BY <2>1, <2>2, <2>4, <3>1, Refuses
  <2> QED BY <2>3, <2>4
<1>5. CASE SetActiveCommits(s)
  <2> DEFINE n == op[s].name
  <2>1. op[s].pc = "activate" /\ AccountsKept BY <1>5 DEF SetActiveCommits
  <2>2. u \in Users /\ u # Nobody /\ n \in Names /\ Sound(q)
        BY <2>1, BusyFacts, StoreAssumption DEF Of
  <2>3. n # "" BY <2>2, StoreAssumption
  <2>4. Has(q, n) <=> n \in Atomic!Named(u) BY <2>2, MapsNamed
  <2>5. CASE Has(q, n)
    <3>1. Store(s, Activated(q, n)) /\ Returns(s, "SETACTIVE", "OK")
          BY <1>5, <2>5 DEF SetActiveCommits, Of
    <3>2. FilesBar' = FilesBar /\ ActiveBar' = [ActiveBar EXCEPT ![u] = n]
          BY <1>1, <2>2, <2>3, <2>5, <3>1
    <3>3. Atomic!Activate(s, u, n)
          BY <2>4, <2>5, <3>1, <3>2, Says DEF Atomic!Activate, FilesBar, ActiveBar
    <3> QED BY <2>1, <2>2, <3>3, Operates DEF Atomic!Operation
  <2>6. CASE ~Has(q, n)
    <3>1. UNCHANGED scripts /\ Returns(s, "SETACTIVE", "NONEXISTENT")
          BY <1>5, <2>6 DEF SetActiveCommits, Of
    <3> QED BY <2>1, <2>2, <2>4, <2>6, <3>1, Refuses
  <2> QED BY <2>5, <2>6
<1> QED BY <1>2, <1>3, <1>4, <1>5 DEF Activating

LEMMA MovingMaps == ASSUME Inv, NEW s \in Sessions, Moving(s) PROVE AtomicStep
<1> DEFINE u == user[s]  q == scripts[u]
<1>1. ASSUME NEW n \in Names, DeleteScript(s, n) PROVE AtomicStep
  <2>1. Called(s) /\ AccountsKept BY <1>1 DEF DeleteScript
  <2>2. u \in Users /\ u # Nobody /\ Sound(q) BY <2>1, CalledFacts DEF Of
  <2>3. Has(q, n) <=> n \in Atomic!Named(u) BY <2>2, MapsNamed
  <2>4. ActiveBar[u] = ActiveOf(q) BY <2>2, BarsAt
  <2>5. Has(q, n) => (ActiveOf(q) = n <=> q[find(q, n)].active) BY <2>2, ActiveNamed
  <2>6. CASE ~Has(q, n)
    <3>1. UNCHANGED scripts /\ Returns(s, "DELETE", "NONEXISTENT")
          BY <1>1, <2>6 DEF DeleteScript, Of
    <3> QED BY <2>1, <2>2, <2>3, <2>6, <3>1, Refuses
  <2>7. CASE Has(q, n) /\ q[find(q, n)].active
    <3>1. UNCHANGED scripts /\ Returns(s, "DELETE", "ACTIVE")
          BY <1>1, <2>7 DEF DeleteScript, Of
    <3> QED BY <2>1, <2>2, <2>3, <2>4, <2>5, <2>7, <3>1, Refuses
  <2>8. CASE Has(q, n) /\ ~q[find(q, n)].active
    <3> DEFINE k == find(q, n)  r == Without(q, k)
    <3>1. Store(s, r) /\ Returns(s, "DELETE", "OK") BY <1>1, <2>8 DEF DeleteScript, Of
    <3>2. q \in Seq(Script) /\ UniqueNames(q) BY <2>2 DEF Sound
    <3>3. k \in DOMAIN q /\ q[k].name = n BY <2>8, <3>2, FindIs
    <3> HIDE DEF q
    <3>4. FilesOf(r) = Others(q, n) /\ ActiveOf(r) = ActiveOf(q)
          BY <2>2, <2>8, <3>3, WithoutFiles DEF Others
    <3>5. /\ FilesBar' = [FilesBar EXCEPT ![u] = FilesOf(r)]
          /\ ActiveBar' = [ActiveBar EXCEPT ![u] = ActiveOf(r)]
          BY <2>2, <3>1, WriteMaps
    <3> HIDE DEF r, k
    <3>6. ActiveBar' = ActiveBar BY <2>2, <3>4, <3>5, ActiveBarSame DEF q
    <3>7. FilesOf(r) = Atomic!Except(u, n) BY <2>2, <3>4, MapsExcept DEF Others, q
    <3>8. FilesBar' = [FilesBar EXCEPT ![u] = Atomic!Except(u, n)] BY <3>5, <3>7
    <3>9. ActiveBar[u] # n BY <2>4, <2>5, <2>8
    <3>10. Atomic!Delete(s, u, n)
           BY <2>3, <2>8, <3>1, <3>6, <3>8, <3>9, Says
           DEF Atomic!Delete, FilesBar, ActiveBar
    <3> QED BY <2>1, <2>2, <3>10, Operates DEF Atomic!Operation
  <2> QED BY <2>6, <2>7, <2>8
<1>2. ASSUME NEW n \in Names, NEW m \in Names, RenameScript(s, n, m) PROVE AtomicStep
  <2>1. Called(s) /\ AccountsKept BY <1>2 DEF RenameScript
  <2>2. u \in Users /\ u # Nobody /\ Sound(q) BY <2>1, CalledFacts DEF Of
  <2>3. \A x : Has(q, x) <=> x \in Atomic!Named(u) BY <2>2, MapsNamed
  <2>4. CASE ~Has(q, n)
    <3>1. UNCHANGED scripts /\ Returns(s, "RENAME", "NONEXISTENT")
          BY <1>2, <2>4 DEF RenameScript, Of
    <3> QED BY <2>1, <2>2, <2>3, <2>4, <3>1, Refuses
  <2>5. CASE Has(q, n) /\ Has(q, m)
    <3>1. UNCHANGED scripts /\ Returns(s, "RENAME", "ALREADYEXISTS")
          BY <1>2, <2>5 DEF RenameScript, Of
    <3> QED BY <2>1, <2>2, <2>3, <2>5, <3>1, Refuses
  <2>6. CASE Has(q, n) /\ ~Has(q, m)
    <3> DEFINE r == [q EXCEPT ![find(q, n)].name = m]
               F == Others(q, n) \cup {[name |-> m, content |-> f.content] :
                                          f \in {g \in FilesOf(q) : g.name = n}}
               G == Atomic!Except(u, n) \cup {Atomic!File(m, f.content) :
                                          f \in {g \in FilesBar[u] : g.name = n}}
    <3>1. Store(s, r) /\ Returns(s, "RENAME", "OK") BY <1>2, <2>6 DEF RenameScript, Of
    <3>2. F = G
      <4>1. Others(q, n) = Atomic!Except(u, n) BY <2>2, MapsExcept DEF Others
      <4>2. FilesOf(q) = FilesBar[u] BY <2>2, BarsAt
      <4>3. \A c : Atomic!File(m, c) = [name |-> m, content |-> c] BY DEF Atomic!File
      <4> QED BY <4>1, <4>2, <4>3
    <3> HIDE DEF q
    <3>3. FilesOf(r) = F /\ ActiveOf(r) = IF ActiveOf(q) = n THEN m ELSE ActiveOf(q)
          BY <2>2, <2>6, RenamedMaps
    <3>4. /\ FilesBar' = [FilesBar EXCEPT ![u] = FilesOf(r)]
          /\ ActiveBar' = [ActiveBar EXCEPT ![u] = ActiveOf(r)]
          BY <2>2, <3>1, WriteMaps
    <3>5. ActiveBar[u] = ActiveOf(q) BY <2>2, BarsAt DEF q
    <3> HIDE DEF r, F
    <3>6. FilesBar' = [FilesBar EXCEPT ![u] = G] BY <3>2, <3>3, <3>4, Zenon
    <3>7. ActiveBar' = [ActiveBar EXCEPT ![u] = IF ActiveBar[u] = n THEN m ELSE ActiveBar[u]]
          BY <3>3, <3>4, <3>5
    <3>8. Atomic!Rename(s, u, n, m)
          BY <2>3, <2>6, <3>1, <3>6, <3>7, Says
          DEF Atomic!Rename, FilesBar, ActiveBar
    <3> QED BY <2>1, <2>2, <3>8, Operates DEF Atomic!Operation
  <2> QED BY <2>4, <2>5, <2>6
<1> QED BY <1>1, <1>2 DEF Moving

LEMMA InitMaps == ASSUME Init PROVE Atomic!Init
<1>1. FilesBar = [u \in Users |-> {}] BY EmptyMaps DEF Init, FilesBar
<1>2. ActiveBar = [u \in Users |-> ""] BY EmptyMaps DEF Init, ActiveBar
<1>3. ReplyBar = Atomic!Result(Nobody, "NEW", "OK")
  <2>1. reply = Rec(Nobody, "NEW", "OK", NoText, NoList, No) BY ResultIsRec DEF Init
  <2>2. reply.list = NoList BY <2>1, RecFields
  <2>3. ReplyBar = WithList(reply, Elements(NoList)) BY <2>2 DEF ReplyBar, WithList, Elements
  <2>4. ReplyBar = Rec(Nobody, "NEW", "OK", NoText, NoSet, No)
        BY <2>1, <2>3, RecFields, NoElements
  <2> QED BY <2>4, ResultIsRec
<1> QED BY <1>1, <1>2, <1>3 DEF Init, Atomic!Init, FilesBar, ActiveBar, ReplyBar

LEMMA NextMaps == ASSUME Inv, Next PROVE AtomicStep
BY HostMaps, LogsInMaps, ReadingMaps, PuttingMaps, ActivatingMaps, MovingMaps DEF Next

\* No session can tell the store from AtomicStore: every operation, PutScript
\* and SetActive with their critical sections and validations in between too,
\* takes effect and is answered as at one instant of its run.
THEOREM StoreIsAtomic == Spec => ImplementsAtomic
<1>1. ASSUME Inv, [Next]_vars PROVE [Atomic!Next]_(Atomic!vars)
  <2>1. CASE Next BY <1>1, <2>1, NextMaps DEF AtomicStep
  <2>2. CASE UNCHANGED vars BY <2>2, Silent DEF vars, AtomicStep
  <2> QED BY <1>1, <2>1, <2>2
<1> QED BY <1>1, InitMaps, Invariance, PTL DEF Spec, ImplementsAtomic, Atomic!Spec
=============================================================================
