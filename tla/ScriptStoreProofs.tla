-------------------------- MODULE ScriptStoreProofs --------------------------
(***************************************************************************)
(* Theorems about ScriptStore, for any number of users, sessions, names    *)
(* and contents, any verdicts of the Validate hook and any MaxScripts.     *)
(***************************************************************************)
EXTENDS ScriptStore, SequenceTheorems, TLAPS

\* What Validate has let through, or the host has seeded.
Vetted(c) == c \in Contents /\ (Accepted(c) \/ c \in SeedContents)

\* A sound account: the invariant, for one slice of scripts.
Sound(q) == /\ q \in Seq(Script) /\ OneActive(q) /\ UniqueNames(q)
            /\ \A i \in DOMAIN q : Vetted(q[i].content)

HasActiveIn(q) == \E i \in DOMAIN q : q[i].active

-----------------------------------------------------------------------------
(***************************************************************************)
(* Slices.                                                                 *)
(***************************************************************************)
\* In a sound account find returns the one script of that name.
LEMMA FindIs ==
  ASSUME NEW q \in Seq(Script), UniqueNames(q), NEW n, Has(q, n)
  PROVE  /\ find(q, n) \in DOMAIN q /\ q[find(q, n)].name = n
         /\ \A i \in DOMAIN q : q[i].name = n => i = find(q, n)
<1>1. PICK i \in DOMAIN q : q[i].name = n BY DEF Has
<1>2. \A j \in DOMAIN q : j < i => q[j].name # n
  <2> SUFFICES ASSUME NEW j \in DOMAIN q, j < i, q[j].name = n PROVE FALSE OBVIOUS
  <2>1. DOMAIN q = 1 .. Len(q) /\ Len(q) \in Nat OBVIOUS
  <2>2. j # i BY <2>1
  <2> QED BY <1>1, <2>2 DEF UniqueNames
<1>3. find(q, n) \in DOMAIN q /\ q[find(q, n)].name = n BY <1>1, <1>2 DEF find
<1> QED BY <1>3 DEF UniqueNames

\* A script edited in place, by what the edit does to the fields.
LEMMA EditedSound ==
  ASSUME NEW q, Sound(q), NEW k \in DOMAIN q, NEW sc \in Script,
         Vetted(sc.content),
         sc.active => \A i \in DOMAIN q : q[i].active => i = k,
         \A i \in DOMAIN q : q[i].name = sc.name => i = k
  PROVE  Sound([q EXCEPT ![k] = sc])
<1> DEFINE r == [q EXCEPT ![k] = sc]
<1>1. q \in Seq(Script) BY DEF Sound
<1>2. r \in Seq(Script) /\ DOMAIN r = DOMAIN q BY <1>1
<1>3. \A i \in DOMAIN q : r[i] = IF i = k THEN sc ELSE q[i] BY <1>1
<1> HIDE DEF r
<1>4. OneActive(r) BY <1>2, <1>3 DEF Sound, OneActive
<1>5. UniqueNames(r) BY <1>2, <1>3 DEF Sound, UniqueNames
<1>6. \A i \in DOMAIN r : Vetted(r[i].content) BY <1>2, <1>3 DEF Sound
<1> QED BY <1>2, <1>4, <1>5, <1>6 DEF Sound, r

LEMMA DeactivatedSound ==
  ASSUME NEW q, Sound(q)
  PROVE  /\ Sound(Deactivated(q)) /\ DOMAIN Deactivated(q) = DOMAIN q
         /\ \A i \in DOMAIN q : /\ ~Deactivated(q)[i].active
                                /\ Deactivated(q)[i].name = q[i].name
<1> DEFINE r == Deactivated(q)
<1>1. q \in Seq(Script) BY DEF Sound
<1>2. r \in Seq(Script) /\ DOMAIN r = DOMAIN q
  <2>1. \A i \in DOMAIN q : [q[i] EXCEPT !.active = FALSE] \in Script
    <3> SUFFICES ASSUME NEW i \in DOMAIN q PROVE [q[i] EXCEPT !.active = FALSE] \in Script
        OBVIOUS
    <3>1. q[i] \in Script BY <1>1
    <3> QED BY <3>1, Zenon DEF Script
  <2>2. DOMAIN q = 1 .. Len(q) /\ Len(q) \in Nat BY <1>1
  <2> QED BY <2>1, <2>2 DEF Deactivated
<1>3. \A i \in DOMAIN q : /\ ~r[i].active /\ r[i].name = q[i].name
                          /\ r[i].content = q[i].content
  <2> SUFFICES ASSUME NEW i \in DOMAIN q
               PROVE  /\ ~r[i].active /\ r[i].name = q[i].name
                      /\ r[i].content = q[i].content
      OBVIOUS
  <2>1. q[i] \in Script /\ r[i] = [q[i] EXCEPT !.active = FALSE] BY <1>1 DEF Deactivated
  <2> HIDE DEF r
  <2> QED BY <2>1, Zenon DEF Script
<1> HIDE DEF r
<1>4. Sound(r) BY <1>2, <1>3 DEF Sound, OneActive, UniqueNames
<1> QED BY <1>2, <1>3, <1>4 DEF r

LEMMA AppendSound ==
  ASSUME NEW q, Sound(q), NEW sc \in Script, Vetted(sc.content),
         sc.active => ~HasActiveIn(q), ~Has(q, sc.name)
  PROVE  Sound(Append(q, sc))
<1> DEFINE r == Append(q, sc)
<1>1. q \in Seq(Script) BY DEF Sound
<1>2. /\ r \in Seq(Script) /\ DOMAIN q = 1 .. Len(q) /\ DOMAIN r = 1 .. Len(q) + 1
      /\ Len(q) \in Nat
      BY <1>1
<1>3. \A i \in DOMAIN r : r[i] = IF i \in DOMAIN q THEN q[i] ELSE sc BY <1>1
<1> HIDE DEF r
<1>4. \A i, j \in DOMAIN r : i \notin DOMAIN q /\ j \notin DOMAIN q => i = j BY <1>2
<1>5. OneActive(r) BY <1>3, <1>4 DEF Sound, OneActive, HasActiveIn
<1>6. UniqueNames(r) BY <1>3, <1>4 DEF Sound, UniqueNames, Has
<1>7. \A i \in DOMAIN r : Vetted(r[i].content) BY <1>3 DEF Sound
<1> QED BY <1>2, <1>5, <1>6, <1>7 DEF Sound, r

\* What is left of a slice without its k-th script.
LEMMA WithoutIs ==
  ASSUME NEW q \in Seq(Script), NEW k \in DOMAIN q
  PROVE  /\ Without(q, k) \in Seq(Script) /\ Len(Without(q, k)) = Len(q) - 1
         /\ \A i \in 1 .. Len(q) - 1 :
               Without(q, k)[i] = q[IF i < k THEN i ELSE i + 1]
<1>1. k \in 1 .. Len(q) /\ Len(q) \in Nat OBVIOUS
<1> DEFINE a == SubSeq(q, 1, k - 1)  b == SubSeq(q, k + 1, Len(q))
<1>2. a \in Seq(Script) /\ Len(a) = k - 1 /\ \A i \in 1 .. k - 1 : a[i] = q[i]
      BY <1>1
<1>3. /\ b \in Seq(Script) /\ Len(b) = Len(q) - k
      /\ \A i \in 1 .. Len(q) - k : b[i] = q[k + i]
      BY <1>1
<1> HIDE DEF a, b
<1>4. (a \o b) \in Seq(Script) /\ Len(a \o b) = Len(q) - 1 BY <1>1, <1>2, <1>3
<1>5. ASSUME NEW i \in 1 .. Len(q) - 1
      PROVE  (a \o b)[i] = q[IF i < k THEN i ELSE i + 1]
  <2>1. CASE i < k BY <2>1, <1>1, <1>2, <1>3
  <2>2. CASE ~(i < k)
    <3>1. (a \o b)[i] = b[i - (k - 1)] BY <2>2, <1>1, <1>2, <1>3
    <3>2. i - (k - 1) \in 1 .. Len(q) - k /\ k + (i - (k - 1)) = i + 1 BY <2>2, <1>1
    <3> QED BY <2>2, <3>1, <3>2, <1>3
  <2> QED BY <2>1, <2>2
<1> QED BY <1>4, <1>5 DEF Without, a, b

LEMMA WithoutSound ==
  ASSUME NEW q, Sound(q), NEW k \in DOMAIN q
  PROVE  Sound(Without(q, k)) /\ (~q[k].active /\ HasActiveIn(q) => HasActiveIn(Without(q, k)))
<1> DEFINE r == Without(q, k)  at(i) == IF i < k THEN i ELSE i + 1
<1>1. q \in Seq(Script) BY DEF Sound
<1>2. k \in 1 .. Len(q) /\ Len(q) \in Nat /\ DOMAIN q = 1 .. Len(q) BY <1>1
<1>3. /\ r \in Seq(Script) /\ Len(r) = Len(q) - 1
      /\ \A i \in 1 .. Len(q) - 1 : r[i] = q[at(i)]
      BY <1>1, WithoutIs
<1> HIDE DEF r
<1>4. DOMAIN r = 1 .. Len(q) - 1 BY <1>3
<1>5. \A i \in DOMAIN r : at(i) \in DOMAIN q BY <1>2, <1>4
<1>6. \A i, j \in DOMAIN r : at(i) = at(j) => i = j BY <1>2, <1>4
<1> HIDE DEF at
<1>7. \A i \in DOMAIN r : r[i] = q[at(i)] BY <1>3, <1>4
<1>8. Sound(r) BY <1>3, <1>5, <1>6, <1>7 DEF Sound, OneActive, UniqueNames
<1>9. ASSUME ~q[k].active, HasActiveIn(q) PROVE HasActiveIn(r)
  <2>1. PICK j \in DOMAIN q : q[j].active BY <1>9 DEF HasActiveIn
  <2>2. j # k BY <1>9, <2>1
  <2>3. PICK i \in DOMAIN r : at(i) = j
    <3>1. CASE j < k BY <3>1, <1>2, <1>4 DEF at
    <3>2. CASE k < j
      <4>1. j - 1 \in DOMAIN r /\ at(j - 1) = j BY <3>2, <1>2, <1>4 DEF at
      <4> QED BY <4>1
    <3> QED BY <3>1, <3>2, <2>2, <1>2
  <2> QED BY <2>1, <2>3, <1>7 DEF HasActiveIn
<1> QED BY <1>8, <1>9 DEF r

-----------------------------------------------------------------------------
(***************************************************************************)
(* What the operations do to a sound account.                              *)
(***************************************************************************)
\* The fields of a script.
LEMMA ScriptFields ==
  ASSUME NEW sc \in Script
  PROVE  sc.name \in Names /\ sc.content \in Contents /\ sc.active \in BOOLEAN
BY DEF Script

\* A script put together from its fields.
LEMMA ScriptRecord ==
  ASSUME NEW n \in Names, NEW x \in Contents, NEW a \in BOOLEAN
  PROVE  LET sc == [name |-> n, content |-> x, active |-> a]
         IN  sc \in Script /\ sc.name = n /\ sc.content = x /\ sc.active = a
BY DEF Script

\* PUTSCRIPT over a script that exists, RENAMESCRIPT and SETACTIVE edit one
\* field of the script that find returns.
LEMMA PutOverIs ==
  ASSUME NEW q \in Seq(Script), NEW k \in DOMAIN q, NEW x \in Contents
  PROVE  [q EXCEPT ![k].content = x]
           = [q EXCEPT ![k] = [name |-> q[k].name, content |-> x, active |-> q[k].active]]
<1>1. q[k] \in Script OBVIOUS
<1>2. [q[k] EXCEPT !.content = x]
        = [name |-> q[k].name, content |-> x, active |-> q[k].active]
      BY <1>1 DEF Script
<1> QED BY <1>2

LEMMA RenamedIs ==
  ASSUME NEW q \in Seq(Script), NEW k \in DOMAIN q, NEW m \in Names
  PROVE  [q EXCEPT ![k].name = m]
           = [q EXCEPT ![k] = [name |-> m, content |-> q[k].content, active |-> q[k].active]]
<1>1. q[k] \in Script OBVIOUS
<1>2. [q[k] EXCEPT !.name = m]
        = [name |-> m, content |-> q[k].content, active |-> q[k].active]
      BY <1>1 DEF Script
<1> QED BY <1>2

LEMMA ActiveSetIs ==
  ASSUME NEW q \in Seq(Script), NEW k \in DOMAIN q, NEW a \in BOOLEAN
  PROVE  [q EXCEPT ![k].active = a]
           = [q EXCEPT ![k] = [name |-> q[k].name, content |-> q[k].content, active |-> a]]
<1>1. q[k] \in Script OBVIOUS
<1>2. [q[k] EXCEPT !.active = a]
        = [name |-> q[k].name, content |-> q[k].content, active |-> a]
      BY <1>1 DEF Script
<1> QED BY <1>2

\* AddScript over a script that exists edits two.
Seeded(q, k, x, a) == [q EXCEPT ![k].content = x, ![k].active = a]

LEMMA SeededIs ==
  ASSUME NEW q \in Seq(Script), NEW k \in DOMAIN q, NEW x \in Contents, NEW a \in BOOLEAN
  PROVE  Seeded(q, k, x, a)
           = [q EXCEPT ![k] = [name |-> q[k].name, content |-> x, active |-> a]]
<1> DEFINE r == [q EXCEPT ![k].content = x]
           sc == [name |-> q[k].name, content |-> x, active |-> q[k].active]
<1>1. q[k] \in Script OBVIOUS
<1>2. sc \in Script BY <1>1, ScriptFields, ScriptRecord
<1>3. r = [q EXCEPT ![k] = sc] BY PutOverIs
<1>4. [sc EXCEPT !.active = a] = [name |-> q[k].name, content |-> x, active |-> a]
      OBVIOUS
<1>5. r \in Seq(Script) /\ r[k] = sc /\ k \in DOMAIN r BY <1>2, <1>3
<1>6. Seeded(q, k, x, a) = [r EXCEPT ![k] = [r[k] EXCEPT !.active = a]]
      BY DEF Seeded
<1> HIDE DEF r, sc
<1>7. [r EXCEPT ![k] = [r[k] EXCEPT !.active = a]]
        = [r EXCEPT ![k] = [name |-> q[k].name, content |-> x, active |-> a]]
      BY <1>4, <1>5
<1>8. \A v : [[q EXCEPT ![k] = sc] EXCEPT ![k] = v] = [q EXCEPT ![k] = v] OBVIOUS
<1> QED BY <1>3, <1>6, <1>7, <1>8

\* An edit by its effect on the activity of the account.
LEMMA EditedActive ==
  ASSUME NEW q \in Seq(Script), NEW k \in DOMAIN q, NEW sc \in Script
  PROVE  LET r == [q EXCEPT ![k] = sc]
         IN  HasActiveIn(q) /\ (q[k].active => sc.active) => HasActiveIn(r)
<1> DEFINE r == [q EXCEPT ![k] = sc]
<1>1. DOMAIN r = DOMAIN q /\ \A i \in DOMAIN q : r[i] = IF i = k THEN sc ELSE q[i] OBVIOUS
<1> HIDE DEF r
<1>2. HasActiveIn(q) /\ (q[k].active => sc.active) => HasActiveIn(r)
      BY <1>1 DEF HasActiveIn
<1> QED BY <1>2 DEF r

LEMMA PutOver ==
  ASSUME NEW q, Sound(q), NEW n, Has(q, n), NEW x, Vetted(x)
  PROVE  LET r == [q EXCEPT ![find(q, n)].content = x]
         IN  Sound(r) /\ (HasActiveIn(q) => HasActiveIn(r))
<1> DEFINE k == find(q, n)
           sc == [name |-> q[k].name, content |-> x, active |-> q[k].active]
<1>1. q \in Seq(Script) /\ OneActive(q) /\ UniqueNames(q) BY DEF Sound
<1>2. k \in DOMAIN q /\ x \in Contents BY <1>1, FindIs DEF Vetted
<1> HIDE DEF k
<1>3. q[k] \in Script BY <1>1, <1>2
<1>4. sc \in Script /\ sc.name = q[k].name /\ sc.content = x /\ sc.active = q[k].active
      BY <1>2, <1>3, ScriptFields, ScriptRecord
<1>5. [q EXCEPT ![k].content = x] = [q EXCEPT ![k] = sc] BY <1>1, <1>2, PutOverIs
<1> HIDE DEF sc
<1>6. sc.active => \A i \in DOMAIN q : q[i].active => i = k
      BY <1>1, <1>2, <1>4 DEF OneActive
<1>7. \A i \in DOMAIN q : q[i].name = sc.name => i = k
      BY <1>1, <1>2, <1>4 DEF UniqueNames
<1>8. Sound([q EXCEPT ![k] = sc]) BY <1>2, <1>4, <1>6, <1>7, EditedSound
<1>9. HasActiveIn(q) => HasActiveIn([q EXCEPT ![k] = sc])
      BY <1>1, <1>2, <1>4, EditedActive
<1> QED BY <1>5, <1>8, <1>9 DEF k

LEMMA Renamed ==
  ASSUME NEW q, Sound(q), NEW n, Has(q, n), NEW m \in Names, ~Has(q, m)
  PROVE  LET r == [q EXCEPT ![find(q, n)].name = m]
         IN  Sound(r) /\ (HasActiveIn(q) => HasActiveIn(r))
<1> DEFINE k == find(q, n)
           sc == [name |-> m, content |-> q[k].content, active |-> q[k].active]
<1>1. q \in Seq(Script) /\ OneActive(q) /\ UniqueNames(q) BY DEF Sound
<1>2. k \in DOMAIN q BY <1>1, FindIs
<1> HIDE DEF k
<1>3. q[k] \in Script /\ Vetted(q[k].content) BY <1>1, <1>2 DEF Sound
<1>4. sc \in Script /\ sc.name = m /\ sc.content = q[k].content /\ sc.active = q[k].active
      BY <1>3, ScriptFields, ScriptRecord
<1>5. [q EXCEPT ![k].name = m] = [q EXCEPT ![k] = sc] BY <1>1, <1>2, RenamedIs
<1> HIDE DEF sc
<1>6. sc.active => \A i \in DOMAIN q : q[i].active => i = k
      BY <1>1, <1>2, <1>4 DEF OneActive
<1>7. \A i \in DOMAIN q : q[i].name = sc.name => i = k BY <1>4 DEF Has
<1>8. Sound([q EXCEPT ![k] = sc]) BY <1>2, <1>3, <1>4, <1>6, <1>7, EditedSound
<1>9. HasActiveIn(q) => HasActiveIn([q EXCEPT ![k] = sc])
      BY <1>1, <1>2, <1>4, EditedActive
<1> QED BY <1>5, <1>8, <1>9 DEF k

\* find looks at the names only.
LEMMA FindDeactivated ==
  ASSUME NEW q, Sound(q), NEW n, Has(q, n)
  PROVE  find(Deactivated(q), n) = find(q, n)
<1> DEFINE r == Deactivated(q)
<1>1. q \in Seq(Script) /\ UniqueNames(q) BY DEF Sound
<1>2. /\ Sound(r) /\ DOMAIN r = DOMAIN q
      /\ \A i \in DOMAIN q : r[i].name = q[i].name
      BY DeactivatedSound
<1> HIDE DEF r
<1>3. Has(r, n) BY <1>2 DEF Has
<1>4. find(r, n) \in DOMAIN q /\ r[find(r, n)].name = n BY <1>2, <1>3, FindIs DEF Sound
<1>5. q[find(r, n)].name = n BY <1>2, <1>4
<1>6. find(r, n) = find(q, n) BY <1>1, <1>4, <1>5, FindIs
<1> QED BY <1>6 DEF r

LEMMA ActivatedSound ==
  ASSUME NEW q, Sound(q), NEW n, Has(q, n)
  PROVE  Sound(Activated(q, n)) /\ HasActiveIn(Activated(q, n))
<1> DEFINE k == find(q, n)
           d == Deactivated(q)
           sc == [name |-> d[k].name, content |-> d[k].content, active |-> TRUE]
           r == [d EXCEPT ![k] = sc]
<1>1. q \in Seq(Script) /\ UniqueNames(q) BY DEF Sound
<1>2. k \in DOMAIN q BY <1>1, FindIs
<1>3. Sound(d) /\ DOMAIN d = DOMAIN q /\ \A i \in DOMAIN q : ~d[i].active
      BY DeactivatedSound
<1>4. Activated(q, n) = [d EXCEPT ![k].active = TRUE] BY DEF Activated
<1> HIDE DEF k, d
<1>5. d \in Seq(Script) /\ UniqueNames(d) /\ d[k] \in Script /\ Vetted(d[k].content)
      BY <1>2, <1>3 DEF Sound
<1>6. sc \in Script /\ sc.name = d[k].name /\ sc.content = d[k].content /\ sc.active
      BY <1>5, ScriptFields, ScriptRecord
<1>7. Activated(q, n) = r BY <1>2, <1>3, <1>4, <1>5, ActiveSetIs
<1> HIDE DEF sc
<1>8. Sound(r)
  <2>1. \A i \in DOMAIN d : d[i].active => i = k BY <1>3
  <2>2. \A i \in DOMAIN d : d[i].name = sc.name => i = k
        BY <1>2, <1>3, <1>5, <1>6 DEF UniqueNames
  <2> QED BY <1>2, <1>3, <1>5, <1>6, <2>1, <2>2, EditedSound
<1>9. k \in DOMAIN r /\ r[k] = sc BY <1>2, <1>3
<1> HIDE DEF r
<1>10. HasActiveIn(r) BY <1>6, <1>9 DEF HasActiveIn
<1> QED BY <1>7, <1>8, <1>10

LEMMA AppendActive ==
  ASSUME NEW q \in Seq(Script), NEW sc \in Script, HasActiveIn(q)
  PROVE  HasActiveIn(Append(q, sc))
<1>1. PICK i \in DOMAIN q : q[i].active BY DEF HasActiveIn
<1>2. i \in DOMAIN Append(q, sc) /\ Append(q, sc)[i] = q[i] OBVIOUS
<1> QED BY <1>1, <1>2 DEF HasActiveIn

LEMMA AddedSound ==
  ASSUME NEW q, Sound(q), NEW n \in Names, NEW x, Vetted(x), NEW a \in BOOLEAN
  PROVE  Sound(Added(q, n, x, a))
<1> DEFINE r == IF a THEN Deactivated(q) ELSE q
           k == find(r, n)
           new == [name |-> n, content |-> x, active |-> a]
           sc == [name |-> r[k].name, content |-> x, active |-> a]
<1>1. Sound(r) /\ (a => ~HasActiveIn(r)) BY DeactivatedSound DEF HasActiveIn
<1>2. x \in Contents BY DEF Vetted
<1>3. /\ Has(r, n) => Added(q, n, x, a) = Seeded(r, k, x, a)
      /\ ~Has(r, n) => Added(q, n, x, a) = Append(r, new)
      BY DEF Added, Seeded
<1> HIDE DEF r
<1>4. r \in Seq(Script) /\ UniqueNames(r) BY <1>1 DEF Sound
<1>5. CASE ~Has(r, n)
  <2>1. new \in Script /\ new.name = n /\ new.content = x /\ new.active = a
        BY <1>2, ScriptRecord
  <2> HIDE DEF new
  <2> QED BY <1>1, <1>3, <1>5, <2>1, AppendSound
<1>6. CASE Has(r, n)
  <2>1. k \in DOMAIN r BY <1>4, <1>6, FindIs
  <2> HIDE DEF k
  <2>2. r[k] \in Script BY <1>4, <2>1
  <2>3. sc \in Script /\ sc.name = r[k].name /\ sc.content = x /\ sc.active = a
        BY <1>2, <2>2, ScriptFields, ScriptRecord
  <2>4. Added(q, n, x, a) = [r EXCEPT ![k] = sc]
    <3>1. Seeded(r, k, x, a) = [r EXCEPT ![k] = sc] BY <1>2, <1>4, <2>1, SeededIs
    <3> HIDE DEF sc
    <3> QED BY <1>3, <1>6, <3>1 DEF k
  <2> HIDE DEF sc, new
  <2>5. sc.active => \A i \in DOMAIN r : r[i].active => i = k
        BY <1>1, <2>3 DEF HasActiveIn
  <2>6. \A i \in DOMAIN r : r[i].name = sc.name => i = k
        BY <1>4, <2>1, <2>3 DEF UniqueNames
  <2>7. Vetted(sc.content) BY <2>3
  <2>8. Sound([r EXCEPT ![k] = sc]) BY <1>1, <2>1, <2>3, <2>5, <2>6, <2>7, EditedSound
  <2> QED BY <2>4, <2>8, Zenon
<1> QED BY <1>5, <1>6

-----------------------------------------------------------------------------
(***************************************************************************)
(* The inductive invariant: the types, and every account is sound.  The    *)
(* type of op says what PutStores relies on: its content has been accepted *)
(* before the lock was taken.                                              *)
(***************************************************************************)
AllSound == \A u \in Users : Sound(scripts[u])

Inv == TypeOK /\ AllSound

\* The part of TypeOK that is about operations under way.
OpsOK ==
    /\ op \in [Sessions -> Ops]
    /\ \A s \in Sessions : op[s].pc # "idle" =>
          user[s] # Nobody /\ op[s].name \in Names /\ op[s].content \in Contents
    /\ \A s \in Sessions : op[s].pc = "put" => Accepted(op[s].content)

\* Who may leave an account without its active script.
MayDeactivate == {"DEACTIVATE", "ADDUSER", "ADDSCRIPT"}

FilterStep == \A u \in Users : (HasActive(u) /\ ~HasActive(u)') =>
                 reply'.what \in MayDeactivate

\* What every step keeps.
Kept == Inv' /\ FilterStep

\* The accounts are the same: nothing is to be shown of them.
LEMMA SameAccounts ==
  ASSUME Inv, UNCHANGED scripts, TypeOK'
  PROVE  Kept
<1>1. AllSound' BY DEF Inv, AllSound
<1>2. FilterStep BY DEF FilterStep, HasActive
<1> QED BY <1>1, <1>2 DEF Kept, Inv

\* One account gets a new slice.
LEMMA OneAccount ==
  ASSUME Inv, NEW u \in Users, NEW q, Sound(q), scripts' = [scripts EXCEPT ![u] = q],
         known' \subseteq Users, password' \in [Users -> Passwords],
         UNCHANGED user, OpsOK',
         (HasActiveIn(scripts[u]) => HasActiveIn(q)) \/ reply'.what \in MayDeactivate
  PROVE  Kept
<1>1. scripts \in [Users -> Seq(Script)] /\ user \in [Sessions -> Users \cup {Nobody}]
      BY DEF Inv, TypeOK
<1>2. \A v \in Users : scripts'[v] = IF v = u THEN q ELSE scripts[v] BY <1>1
<1>3. q \in Seq(Script) BY DEF Sound
<1>4. scripts' \in [Users -> Seq(Script)] BY <1>1, <1>3
<1>5. TypeOK' BY <1>1, <1>4 DEF TypeOK, OpsOK
<1>6. AllSound' BY <1>2 DEF AllSound, Inv
<1>7. FilterStep
  <2> SUFFICES ASSUME NEW v \in Users, HasActive(v), ~HasActive(v)'
               PROVE  reply'.what \in MayDeactivate
      BY DEF FilterStep
  <2>1. HasActiveIn(scripts[v]) /\ ~HasActiveIn(scripts'[v]) BY DEF HasActive, HasActiveIn
  <2> QED BY <1>2, <2>1
<1> QED BY <1>5, <1>6, <1>7 DEF Kept, Inv

\* One session enters or leaves an operation.
LEMMA OneOp ==
  ASSUME Inv, NEW s \in Sessions, NEW o \in Ops, op' = [op EXCEPT ![s] = o],
         UNCHANGED user,
         o.pc # "idle" => user[s] # Nobody /\ o.name \in Names /\ o.content \in Contents,
         o.pc = "put" => Accepted(o.content)
  PROVE  OpsOK'
<1>1. OpsOK BY DEF Inv, TypeOK, OpsOK
<1>2. op' \in [Sessions -> Ops] BY <1>1 DEF OpsOK
<1>3. \A t \in Sessions : op'[t] = IF t = s THEN o ELSE op[t] BY <1>1 DEF OpsOK
<1> QED BY <1>1, <1>2, <1>3 DEF OpsOK

LEMMA IdleOp == Idle \in Ops /\ Idle.pc = "idle"
BY DEF Idle, Ops

LEMMA BusyOp ==
  ASSUME NEW l \in {"put", "validate", "activate"}, NEW n \in Names, NEW x \in Contents
  PROVE  LET o == At(l, n, x) IN o \in Ops /\ o.pc = l /\ o.name = n /\ o.content = x
BY DEF At, Ops

\* A session in the middle of an operation has an account and its arguments.
LEMMA BusyFacts ==
  ASSUME Inv, NEW s \in Sessions, op[s].pc # "idle"
  PROVE  /\ user[s] \in Users /\ op[s].name \in Names /\ op[s].content \in Contents
         /\ Sound(Of(s))
<1>1. user[s] \in Users /\ op[s].name \in Names /\ op[s].content \in Contents
      BY DEF Inv, TypeOK
<1> QED BY <1>1 DEF Inv, AllSound, Of

LEMMA CalledFacts ==
  ASSUME Inv, NEW s \in Sessions, Called(s)
  PROVE  user[s] \in Users /\ user[s] # Nobody /\ Sound(Of(s))
<1>1. user[s] \in Users /\ user[s] # Nobody BY DEF Inv, TypeOK, Called
<1> QED BY <1>1 DEF Inv, AllSound, Of

-----------------------------------------------------------------------------
(***************************************************************************)
(* One lemma per group of actions.                                         *)
(***************************************************************************)
LEMMA EmptySound == Sound(<<>>)
BY DEF Sound, OneActive, UniqueNames

LEMMA HostKeeps == ASSUME Inv, Host PROVE Kept
<1>1. /\ known \subseteq Users /\ password \in [Users -> Passwords] /\ OpsOK
      /\ scripts \in [Users -> Seq(Script)]
      BY DEF Inv, TypeOK, OpsOK
<1>2. ASSUME NEW u \in Users, NEW p \in Passwords, AddUser(u, p) PROVE Kept
  <2>1. OpsOK' BY <1>1, <1>2 DEF AddUser, OpsOK
  <2>2. known' \subseteq Users /\ password' \in [Users -> Passwords]
        BY <1>1, <1>2 DEF AddUser
  <2>3. reply'.what \in MayDeactivate BY <1>2 DEF AddUser, Returns, Result, MayDeactivate
  <2> QED BY <1>2, <2>1, <2>2, <2>3, EmptySound, OneAccount DEF AddUser
<1>3. ASSUME NEW u \in Users, NEW n \in Names, NEW x \in SeedContents, NEW a \in BOOLEAN,
             AddScript(u, n, x, a)
      PROVE  Kept
  <2>1. OpsOK' BY <1>1, <1>3 DEF AddScript, AccountsKept, OpsOK
  <2>2. known' \subseteq Users /\ password' \in [Users -> Passwords] /\ UNCHANGED user
        BY <1>1, <1>3 DEF AddScript, AccountsKept
  <2>3. reply'.what \in MayDeactivate BY <1>3 DEF AddScript, Returns, Result, MayDeactivate
  <2>4. Vetted(x) /\ Sound(scripts[u]) BY StoreAssumption DEF Vetted, Inv, AllSound
  <2>5. Sound(Added(scripts[u], n, x, a)) BY <2>4, AddedSound
  <2>6. scripts' = [scripts EXCEPT ![u] = Added(scripts[u], n, x, a)]
        BY <1>3 DEF AddScript
  <2> QED BY <2>1, <2>2, <2>3, <2>5, <2>6, OneAccount
<1> QED BY <1>2, <1>3 DEF Host

LEMMA LogsInKeeps == ASSUME Inv, NEW s \in Sessions, LogsIn(s) PROVE Kept
<1>1. ASSUME NEW u \in Users, NEW p, NEW w, login(s, u, p, w) PROVE TypeOK'
  <2>1. /\ UNCHANGED <<known, password, scripts, op>> /\ user[s] = Nobody
        /\ user' = [user EXCEPT ![s] = u] \/ UNCHANGED user
        BY <1>1 DEF login
  <2>2. user \in [Sessions -> Users \cup {Nobody}] BY DEF Inv, TypeOK
  <2>3. user' \in [Sessions -> Users \cup {Nobody}] BY <2>1, <2>2
  <2>4. op[s].pc = "idle" BY <2>1 DEF Inv, TypeOK
  <2>5. \A t \in Sessions : op'[t].pc # "idle" => user'[t] = user[t]
        BY <2>1, <2>2, <2>4
  <2> QED BY <2>1, <2>3, <2>5 DEF Inv, TypeOK
<1>2. UNCHANGED scripts BY DEF LogsIn, Login, AuthenticatePlain, login
<1>3. PICK u \in Users, p \in Passwords :
         Login(s, u, p) \/ \E own \in BOOLEAN : AuthenticatePlain(s, own, u, p)
      BY DEF LogsIn
<1>4. (\E w : login(s, u, p, w)) \/ UNCHANGED <<known, password, scripts, user, op>>
      BY <1>3 DEF Login, AuthenticatePlain
<1>5. UNCHANGED <<known, password, scripts, user, op>> => TypeOK' BY DEF Inv, TypeOK
<1> QED BY <1>1, <1>2, <1>4, <1>5, SameAccounts

LEMMA ReadingKeeps == ASSUME Inv, NEW s \in Sessions, Reading(s) PROVE Kept
<1>1. Reads BY DEF Reading, ListScripts, GetScript, HaveSpace, CheckScript
<1>2. TypeOK' BY <1>1 DEF Reads, AccountsKept, Inv, TypeOK
<1> QED BY <1>1, <1>2, SameAccounts DEF Reads

\* A step inside an operation that touches no account.
LEMMA OnlyOps ==
  ASSUME Inv, AccountsKept, UNCHANGED scripts, OpsOK'
  PROVE  Kept
<1>1. TypeOK' BY DEF Inv, TypeOK, AccountsKept, OpsOK
<1> QED BY <1>1, SameAccounts

LEMMA SameOps == ASSUME Inv, UNCHANGED <<op, user>> PROVE OpsOK'
BY DEF Inv, TypeOK, OpsOK

\* A session writes its account.
LEMMA Writes ==
  ASSUME Inv, NEW s \in Sessions, user[s] \in Users, NEW q, Sound(q), Store(s, q),
         AccountsKept, OpsOK',
         (HasActiveIn(Of(s)) => HasActiveIn(q)) \/ reply'.what \in MayDeactivate
  PROVE  Kept
<1>1. known' \subseteq Users /\ password' \in [Users -> Passwords] /\ UNCHANGED user
      BY DEF Inv, TypeOK, AccountsKept
<1>2. scripts' = [scripts EXCEPT ![user[s]] = q] BY DEF Store
<1>3. (HasActiveIn(scripts[user[s]]) => HasActiveIn(q)) \/ reply'.what \in MayDeactivate
      BY DEF Of
<1> QED BY <1>1, <1>2, <1>3, OneAccount

LEMMA PuttingKeeps == ASSUME Inv, NEW s \in Sessions, Putting(s) PROVE Kept
<1>1. ASSUME NEW n \in Names, NEW x \in Contents, PutValidates(s, n, x) PROVE Kept
  <2>1. user[s] # Nobody /\ AccountsKept /\ UNCHANGED scripts
        BY <1>1 DEF PutValidates, Called
  <2>2. CASE UNCHANGED op BY <2>1, <2>2, SameOps, OnlyOps DEF AccountsKept
  <2>3. CASE op' = [op EXCEPT ![s] = At("put", n, x)] /\ Accepted(x)
    <3> DEFINE o == At("put", n, x)
    <3>1. o \in Ops /\ o.pc = "put" /\ o.name = n /\ o.content = x BY BusyOp
    <3> HIDE DEF o
    <3>2. OpsOK' BY <2>1, <2>3, <3>1, OneOp DEF AccountsKept, o
    <3> QED BY <2>1, <3>2, OnlyOps
  <2> QED BY <1>1, <2>2, <2>3 DEF PutValidates
<1>2. CASE PutStores(s)
  <2> DEFINE q == Of(s)  n == op[s].name  x == op[s].content
             new == [name |-> n, content |-> x, active |-> FALSE]
  <2>1. /\ op[s].pc = "put" /\ op' = [op EXCEPT ![s] = Idle] /\ AccountsKept
        /\ \/ Has(q, n) /\ Store(s, [q EXCEPT ![find(q, n)].content = x])
           \/ UNCHANGED scripts
           \/ ~Has(q, n) /\ Store(s, Append(q, new))
        BY <1>2 DEF PutStores
  <2>2. OpsOK' BY <2>1, IdleOp, OneOp DEF AccountsKept
  <2>3. user[s] \in Users /\ n \in Names /\ x \in Contents /\ Sound(q)
        BY <2>1, BusyFacts
  <2>4. Vetted(x) BY <2>1, <2>3 DEF Inv, TypeOK, Vetted
  <2> HIDE DEF q, n, x
  <2>5. CASE UNCHANGED scripts BY <2>1, <2>2, <2>5, OnlyOps
  <2>6. CASE Has(q, n) /\ Store(s, [q EXCEPT ![find(q, n)].content = x])
    <3> DEFINE r == [q EXCEPT ![find(q, n)].content = x]
    <3>1. Sound(r) /\ (HasActiveIn(q) => HasActiveIn(r)) BY <2>3, <2>4, <2>6, PutOver
    <3> HIDE DEF r
    <3> QED BY <2>1, <2>2, <2>3, <2>6, <3>1, Writes DEF q, r
  <2>7. CASE ~Has(q, n) /\ Store(s, Append(q, new))
    <3>1. new \in Script /\ new.name = n /\ new.content = x /\ ~new.active
          BY <2>3, ScriptRecord
    <3> HIDE DEF new
    <3>2. Sound(Append(q, new)) BY <2>3, <2>4, <2>7, <3>1, AppendSound
    <3>3. HasActiveIn(q) => HasActiveIn(Append(q, new))
          BY <2>3, <3>1, AppendActive DEF Sound
    <3> QED BY <2>1, <2>2, <2>3, <2>7, <3>2, <3>3, Writes DEF q
  <2> QED BY <2>1, <2>5, <2>6, <2>7
<1> QED BY <1>1, <1>2 DEF Putting

LEMMA ActivatingKeeps == ASSUME Inv, NEW s \in Sessions, Activating(s) PROVE Kept
<1>1. CASE DeactivateAll(s)
  <2>1. Called(s) /\ Store(s, Deactivated(Of(s))) /\ AccountsKept /\ UNCHANGED op
        BY <1>1 DEF DeactivateAll
  <2>2. user[s] \in Users /\ Sound(Deactivated(Of(s)))
        BY <2>1, CalledFacts, DeactivatedSound
  <2>3. reply'.what \in MayDeactivate
        BY <1>1 DEF DeactivateAll, Returns, Result, MayDeactivate
  <2>4. OpsOK' BY <2>1, SameOps DEF AccountsKept
  <2> QED BY <2>1, <2>2, <2>3, <2>4, Writes
<1>2. ASSUME NEW n \in Names, SetActiveReads(s, n) PROVE Kept
  <2> DEFINE q == Of(s)  x == q[find(q, n)].content
  <2>1. Called(s) /\ AccountsKept /\ UNCHANGED scripts BY <1>2 DEF SetActiveReads
  <2>2. Sound(q) /\ user[s] # Nobody BY <2>1, CalledFacts
  <2>3. CASE UNCHANGED op BY <2>1, <2>3, SameOps, OnlyOps DEF AccountsKept
  <2>4. CASE Has(q, n) /\ op' = [op EXCEPT ![s] = At("validate", n, x)]
    <3> DEFINE o == At("validate", n, x)
    <3>1. find(q, n) \in DOMAIN q BY <2>2, <2>4, FindIs DEF Sound
    <3>2. x \in Contents BY <2>2, <3>1 DEF Sound, Vetted
    <3>3. o \in Ops /\ o.pc = "validate" /\ o.name = n /\ o.content = x BY <3>2, BusyOp
    <3>4. op' = [op EXCEPT ![s] = o] BY <2>4
    <3> HIDE DEF o, x, q
    <3>5. OpsOK' BY <2>1, <2>2, <3>2, <3>3, <3>4, OneOp DEF AccountsKept
    <3> QED BY <2>1, <3>5, OnlyOps
  <2> QED BY <1>2, <2>3, <2>4 DEF SetActiveReads
<1>3. CASE SetActiveValidates(s)
  <2>1. op[s].pc = "validate" /\ AccountsKept /\ UNCHANGED scripts
        BY <1>3 DEF SetActiveValidates
  <2>2. user[s] \in Users /\ op[s].name \in Names /\ op[s].content \in Contents
        BY <2>1, BusyFacts
  <2>3. CASE op' = [op EXCEPT ![s] = Idle]
        BY <2>1, <2>3, IdleOp, OneOp, OnlyOps DEF AccountsKept
  <2>4. CASE op' = [op EXCEPT ![s] = At("activate", op[s].name, op[s].content)]
    <3> DEFINE n == op[s].name  x == op[s].content  o == At("activate", n, x)
    <3>1. o \in Ops /\ o.pc = "activate" /\ o.name = n /\ o.content = x BY <2>2, BusyOp
    <3>2. user[s] # Nobody /\ n \in Names /\ x \in Contents BY <2>2, StoreAssumption
    <3>3. op' = [op EXCEPT ![s] = o] BY <2>4
    <3> HIDE DEF o, n, x
    <3>4. OpsOK' BY <2>1, <3>1, <3>2, <3>3, OneOp DEF AccountsKept
    <3> QED BY <2>1, <3>4, OnlyOps
  <2> QED BY <1>3, <2>3, <2>4 DEF SetActiveValidates
<1>4. CASE SetActiveCommits(s)
  <2> DEFINE q == Of(s)  n == op[s].name
  <2>1. /\ op[s].pc = "activate" /\ op' = [op EXCEPT ![s] = Idle] /\ AccountsKept
        /\ \/ Has(q, n) /\ Store(s, Activated(q, n))
           \/ UNCHANGED scripts
        BY <1>4 DEF SetActiveCommits
  <2>2. OpsOK' BY <2>1, IdleOp, OneOp DEF AccountsKept
  <2>3. user[s] \in Users /\ Sound(q) BY <2>1, BusyFacts
  <2>4. CASE UNCHANGED scripts BY <2>1, <2>2, <2>4, OnlyOps
  <2>5. CASE Has(q, n) /\ Store(s, Activated(q, n))
    <3>1. Sound(Activated(q, n)) /\ HasActiveIn(Activated(q, n))
          BY <2>3, <2>5, ActivatedSound
    <3> QED BY <2>1, <2>2, <2>3, <2>5, <3>1, Writes
  <2> QED BY <2>1, <2>4, <2>5
<1> QED BY <1>1, <1>2, <1>3, <1>4 DEF Activating

LEMMA MovingKeeps == ASSUME Inv, NEW s \in Sessions, Moving(s) PROVE Kept
<1> DEFINE q == Of(s)
<1>1. Called(s) /\ AccountsKept /\ UNCHANGED op BY DEF Moving, DeleteScript, RenameScript
<1>2. user[s] \in Users /\ Sound(q) BY <1>1, CalledFacts
<1>3. OpsOK' BY <1>1, SameOps DEF AccountsKept
<1>4. CASE UNCHANGED scripts BY <1>1, <1>3, <1>4, OnlyOps
<1>5. ASSUME NEW n \in Names, Has(q, n), ~q[find(q, n)].active,
             Store(s, Without(q, find(q, n)))
      PROVE  Kept
  <2>1. find(q, n) \in DOMAIN q BY <1>2, <1>5, FindIs DEF Sound
  <2>2. /\ Sound(Without(q, find(q, n)))
        /\ HasActiveIn(q) => HasActiveIn(Without(q, find(q, n)))
        BY <1>2, <1>5, <2>1, WithoutSound
  <2> QED BY <1>1, <1>2, <1>3, <1>5, <2>2, Writes
<1>6. ASSUME NEW n \in Names, NEW m \in Names, Has(q, n), ~Has(q, m),
             Store(s, [q EXCEPT ![find(q, n)].name = m])
      PROVE  Kept
  <2> DEFINE r == [q EXCEPT ![find(q, n)].name = m]
  <2>1. Sound(r) /\ (HasActiveIn(q) => HasActiveIn(r)) BY <1>2, <1>6, Renamed
  <2> HIDE DEF r
  <2> QED BY <1>1, <1>2, <1>3, <1>6, <2>1, Writes DEF r
<1> QED BY <1>4, <1>5, <1>6 DEF Moving, DeleteScript, RenameScript

\* Every step keeps the invariant, and takes an active script away only where
\* it may.
LEMMA NextKeeps == ASSUME Inv, [Next]_vars PROVE Kept
<1>1. CASE UNCHANGED vars
  <2>1. TypeOK' /\ UNCHANGED scripts BY <1>1 DEF vars, Inv, TypeOK
  <2> QED BY <2>1, SameAccounts
<1>2. CASE Next
  BY <1>2, HostKeeps, LogsInKeeps, ReadingKeeps, PuttingKeeps, ActivatingKeeps, MovingKeeps
     DEF Next
<1> QED BY <1>1, <1>2

LEMMA InitInv == Init => Inv
<1> SUFFICES ASSUME Init PROVE Inv OBVIOUS
<1>1. \A u \in Users : scripts[u] = <<>> BY DEF Init
<1>2. AllSound BY <1>1, EmptySound DEF AllSound
<1>3. OpsOK BY IdleOp DEF Init, OpsOK
<1>4. scripts \in [Users -> Seq(Script)] /\ user \in [Sessions -> Users \cup {Nobody}]
      BY DEF Init
<1> QED BY <1>2, <1>3, <1>4 DEF Init, Inv, TypeOK, OpsOK

-----------------------------------------------------------------------------
(***************************************************************************)
(* The theorems.                                                           *)
(***************************************************************************)
\* The invariant of the store holds in every state.
THEOREM Invariance == Spec => []Inv
<1>1. Inv /\ [Next]_vars => Inv' BY NextKeeps DEF Kept
<1> QED BY <1>1, InitInv, PTL DEF Spec

\* Types, and what a session in the middle of an operation holds.
THEOREM TypeCorrect == Spec => []TypeOK
<1>1. Inv => TypeOK BY DEF Inv
<1> QED BY <1>1, Invariance, PTL

\* At most one script of an account is active and no two have one name, for
\* any number of sessions whose SetActive and PutScript overlap (store.go).
THEOREM AccountsStaySound == Spec => []AccountsSound
<1>1. Inv => AccountsSound BY DEF Inv, AllSound, Sound, AccountsSound
<1> QED BY <1>1, Invariance, PTL

\* A script that Validate rejects is one that the host has seeded.
THEOREM StoredIsVetted == Spec => []StoredVetted
<1>1. Inv => StoredVetted BY DEF Inv, AllSound, Sound, Vetted, StoredVetted
<1> QED BY <1>1, Invariance, PTL

\* Only SETACTIVE "" and the host leave an account without its active script.
THEOREM FilterStays == Spec => FilterKept
<1>1. Inv /\ [Next]_vars =>
        [\A u \in Users : (HasActive(u) /\ ~HasActive(u)') =>
            reply'.what \in {"DEACTIVATE", "ADDUSER", "ADDSCRIPT"}]_vars
      BY NextKeeps DEF Kept, FilterStep, MayDeactivate
<1> QED BY <1>1, Invariance, PTL DEF Spec, FilterKept
=============================================================================
