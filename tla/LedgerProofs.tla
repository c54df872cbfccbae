---------------------------- MODULE LedgerProofs ----------------------------
(***************************************************************************)
(* Theorems about LedgerImport, for every ledger, sheet and bound.  From   *)
(* lookups in keyed tables to what validation knows of a sheet, to the     *)
(* items made of it and what applying them makes of the tables; then three *)
(* invariants on top of each other.  IInv: tables keyed, rows matched and  *)
(* traced to the export, versions never fall.  Foreseen: what waits for    *)
(* application fits the tables.  Said: what the rows say is so, or will be *)
(* once the waiting items are applied.                                     *)
(***************************************************************************)
EXTENDS LedgerImport, SequenceTheorems, FiniteSetTheorems,
        WellFoundedInduction, TLAPS

-----------------------------------------------------------------------------
(* What is assumed of the texts. *)

LEMMA TextsAre ==
  /\ Held \subseteq Texts /\ Blank \in Held /\ Entered \subseteq Held
  /\ \A t \in Held : Stored[t] = t /\ t \notin Unreadable /\ Shown[t] \in Held
  /\ \A t \in Texts : Stored[t] \in Held
BY LedgerAssumption DEF Held

LEMMA PartsAre ==
  /\ Parts[Blank] = {}
  /\ \A c \in Codes : Parts[c] \in SUBSET Codes /\ IsFiniteSet(Parts[c])
  /\ \A c \in Codes : \A part \in Parts[c] : Parts[part] = {part}
BY LedgerAssumption
-----------------------------------------------------------------------------
(* Sets, sequences and lookups. *)

LEMMA FirstIsIn ==
  ASSUME NEW rows \in SUBSET Nat, rows # {}
  PROVE  /\ First(rows) \in rows
         /\ \A j \in rows : First(rows) <= j
<1>1. \E m \in rows : \A k \in rows : ~(<<k, m>> \in OpToRel(<, Nat))
  BY NatLessThanWellFounded, WFMin
<1>2. PICK m \in rows : \A k \in rows : ~(<<k, m>> \in OpToRel(<, Nat))
  BY <1>1
<1>3. ASSUME NEW k \in rows
      PROVE  m <= k
  <2>1. ~(<<k, m>> \in {ss \in Nat \X Nat : ss[1] < ss[2]})
    BY <1>2 DEF OpToRel
  <2> QED
    BY <2>1
<1>4. \E x \in rows : \A k \in rows : x <= k
  BY <1>3
<1> QED
  BY <1>4 DEF First

LEMMA IdInFacts ==
  ASSUME NEW ids \in SUBSET (Nat \ {0})
  PROVE  /\ IdIn(ids) \in Nat
         /\ ids # {} => IdIn(ids) \in ids
         /\ IdIn(ids) = NoId <=> ids = {}
<1>1. CASE ids = {}
  BY <1>1 DEF IdIn, NoId
<1>2. CASE ids # {}
  <2>1. IdIn(ids) \in ids
    BY <1>2 DEF IdIn
  <2> QED
    BY <1>2, <2>1 DEF NoId
<1> QED
  BY <1>1, <1>2

(* SetToSeq lists every element of a finite set once. *)
LEMMA ListOfSet ==
  ASSUME NEW S, IsFiniteSet(S)
  PROVE  /\ SetToSeq(S) \in Seq(S)
         /\ \A i, j \in 1..Len(SetToSeq(S)) : SetToSeq(S)[i] = SetToSeq(S)[j] => i = j
         /\ \A x \in S : \E i \in 1..Len(SetToSeq(S)) : SetToSeq(S)[i] = x
<1> DEFINE n == Cardinality(S)
           q == SetToSeq(S)
<1>1. n \in Nat /\ ExistsBijection(1..n, S)
  BY FS_CardinalityType
<1>2. \E f \in [1..n -> S] : IsInjective(f)
  BY <1>1 DEF ExistsBijection, Bijection, Injection
<1>3. q \in [1..n -> S] /\ IsInjective(q)
  BY <1>2 DEF SetToSeq
<1>4. q \in Seq(S)
  BY <1>1, <1>3, SeqDef
<1>5. Len(q) = n
  <2>1. DOMAIN q = 1..n /\ DOMAIN q = 1..Len(q) /\ Len(q) \in Nat
    BY <1>3, <1>4, LenProperties
  <2> QED
    BY <1>1, <2>1
<1>6. ASSUME NEW i \in 1..n, NEW j \in 1..n, q[i] = q[j]
      PROVE  i = j
  BY <1>3, <1>6 DEF IsInjective
<1>7. q \in Surjection(1..n, S)
  <2>1. q \in Injection(1..n, S)
    BY <1>3 DEF Injection
  <2>2. Cardinality(1..n) = n
    BY <1>1, FS_Interval
  <2> QED
    BY <2>1, <2>2, FS_Injection
<1>8. ASSUME NEW x \in S
      PROVE  \E i \in 1..n : q[i] = x
  BY <1>7 DEF Surjection
<1> QED
  BY <1>4, <1>5, <1>6, <1>8

LEMMA ImageIsFinite ==
  ASSUME NEW S, IsFiniteSet(S), NEW f, DOMAIN f = S, NEW T,
         T = {f[x] : x \in S}, f = [x \in S |-> f[x]]
  PROVE  IsFiniteSet(T)
<1>1. f \in [S -> T]
  OBVIOUS
<1>2. f \in Surjection(S, T)
  BY <1>1 DEF Surjection
<1> QED
  BY <1>2, FS_Surjection

LEMMA SeqOfFunction ==
  ASSUME NEW S, NEW n \in Nat, NEW f \in [1..n -> S]
  PROVE  f \in Seq(S) /\ Len(f) = n
<1>1. f \in Seq(S)
  BY SeqDef
<1>2. DOMAIN f = 1..Len(f) /\ Len(f) \in Nat /\ DOMAIN f = 1..n
  BY <1>1, LenProperties
<1> QED
  BY <1>1, <1>2

(* A table that lists rows and then others. *)
LEMMA TableOf ==
  ASSUME NEW S, NEW s \in Seq(S), NEW t \in Seq(S)
  PROVE  /\ s \o t \in Seq(S)
         /\ Len(s) \in Nat /\ Len(t) \in Nat
         /\ Ids(s) \subseteq Ids(s \o t)
         /\ Ids(s) \subseteq Nat \ {0}
         /\ \A i \in Ids(s) : (s \o t)[i] = s[i]
         /\ \A i \in Ids(s \o t) \ Ids(s) :
               i - Len(s) \in Ids(t) /\ (s \o t)[i] = t[i - Len(s)]
         /\ \A i \in Ids(t) : Len(s) + i \in Ids(s \o t) /\ (s \o t)[Len(s) + i] = t[i]
<1>1. Len(s) \in Nat /\ Len(t) \in Nat
  BY LenProperties
<1>2. Len(s \o t) = Len(s) + Len(t) /\ s \o t \in Seq(S)
  BY ConcatProperties
<1>3. \A i \in 1..Len(s) + Len(t) :
         (s \o t)[i] = IF i <= Len(s) THEN s[i] ELSE t[i - Len(s)]
  BY ConcatProperties
<1>4. \A i \in Ids(s) : i \in Ids(s \o t) /\ (s \o t)[i] = s[i] /\ i \in Nat \ {0}
  BY <1>1, <1>2, <1>3 DEF Ids
<1>5. ASSUME NEW i \in Ids(s \o t) \ Ids(s)
      PROVE  i - Len(s) \in Ids(t) /\ (s \o t)[i] = t[i - Len(s)]
  <2>1. i \in 1..Len(s) + Len(t) /\ ~(i <= Len(s))
    BY <1>1, <1>2 DEF Ids
  <2>2. i - Len(s) \in 1..Len(t)
    BY <1>1, <2>1
  <2> QED
    BY <1>3, <2>1, <2>2 DEF Ids
<1>6. ASSUME NEW i \in Ids(t)
      PROVE  Len(s) + i \in Ids(s \o t) /\ (s \o t)[Len(s) + i] = t[i]
  <2>1. Len(s) + i \in 1..Len(s) + Len(t) /\ ~(Len(s) + i <= Len(s))
    BY <1>1 DEF Ids
  <2>2. (Len(s) + i) - Len(s) = i
    BY <1>1 DEF Ids
  <2>3. (s \o t)[Len(s) + i] = t[(Len(s) + i) - Len(s)]
    BY <1>3, <2>1
  <2> QED
    BY <1>2, <2>1, <2>2, <2>3 DEF Ids
<1> QED
  BY <1>1, <1>2, <1>4, <1>5, <1>6

LEMMA RowsOfTable ==
  ASSUME NEW S, NEW s \in Seq(S)
  PROVE  /\ Len(s) \in Nat /\ DOMAIN s = Ids(s) /\ Ids(s) = 1..Len(s)
         /\ Ids(s) \subseteq Nat \ {0} /\ IsFiniteSet(Ids(s))
         /\ \A i \in Ids(s) : s[i] \in S
<1>1. Len(s) \in Nat /\ DOMAIN s = 1..Len(s)
  BY LenProperties
<1>2. \A i \in 1..Len(s) : s[i] \in S
  BY ElementOfSeq
<1>3. IsFiniteSet(1..Len(s))
  BY <1>1, FS_Interval
<1>4. 1..Len(s) \subseteq Nat \ {0}
  BY <1>1
<1> QED
  BY <1>1, <1>2, <1>3, <1>4 DEF Ids
-----------------------------------------------------------------------------
(* The ledger's keys, and what a lookup by one finds. *)

NumbersUnique(S) == \A s, t \in Ids(S) : S[s].number = S[t].number => s = t
CodesUnique(D) == \A d, e \in Ids(D) : D[d].code = D[e].code => d = e

Keyed(S, D) ==
    /\ S \in Seq(ServiceRow) /\ NumbersUnique(S)
    /\ D \in Seq(DeviceRow) /\ CodesUnique(D)
    /\ \A d \in Ids(D) : D[d].service \in Ids(S)

LEMMA NumberedFacts ==
  ASSUME NEW S \in Seq(ServiceRow), NumbersUnique(S)
  PROVE  /\ \A n : Numbered(S, n) \subseteq Ids(S)
         /\ \A n : IdIn(Numbered(S, n)) \in Nat
         /\ \A n : IdIn(Numbered(S, n)) = NoId <=> Numbered(S, n) = {}
         /\ \A n : IdIn(Numbered(S, n)) # NoId =>
               IdIn(Numbered(S, n)) \in Ids(S) /\ S[IdIn(Numbered(S, n))].number = n
         /\ \A s \in Ids(S) :
               Numbered(S, S[s].number) = {s} /\ IdIn(Numbered(S, S[s].number)) = s
<1>1. Ids(S) \subseteq Nat \ {0}
  BY RowsOfTable
<1>2. ASSUME NEW n
      PROVE  /\ Numbered(S, n) \subseteq Ids(S)
             /\ IdIn(Numbered(S, n)) \in Nat
             /\ IdIn(Numbered(S, n)) = NoId <=> Numbered(S, n) = {}
             /\ IdIn(Numbered(S, n)) # NoId =>
                  IdIn(Numbered(S, n)) \in Ids(S) /\ S[IdIn(Numbered(S, n))].number = n
  <2>1. Numbered(S, n) \subseteq Ids(S)
    BY DEF Numbered
  <2>2. Numbered(S, n) \in SUBSET (Nat \ {0})
    BY <1>1, <2>1
  <2>3. /\ IdIn(Numbered(S, n)) \in Nat
        /\ Numbered(S, n) # {} => IdIn(Numbered(S, n)) \in Numbered(S, n)
        /\ IdIn(Numbered(S, n)) = NoId <=> Numbered(S, n) = {}
    BY <2>2, IdInFacts
  <2>4. IdIn(Numbered(S, n)) # NoId => IdIn(Numbered(S, n)) \in Numbered(S, n)
    BY <2>3
  <2>5. IdIn(Numbered(S, n)) \in Numbered(S, n) =>
          IdIn(Numbered(S, n)) \in Ids(S) /\ S[IdIn(Numbered(S, n))].number = n
    BY DEF Numbered
  <2> QED
    BY <2>1, <2>3, <2>4, <2>5
<1>3. ASSUME NEW s \in Ids(S)
      PROVE  Numbered(S, S[s].number) = {s} /\ IdIn(Numbered(S, S[s].number)) = s
  <2>1. Numbered(S, S[s].number) = {s}
    BY DEF Numbered, NumbersUnique
  <2>2. IdIn({s}) = s
    BY DEF IdIn
  <2> QED
    BY <2>1, <2>2
<1> QED
  BY <1>2, <1>3

LEMMA CodedFacts ==
  ASSUME NEW D \in Seq(DeviceRow), CodesUnique(D)
  PROVE  /\ \A c : Coded(D, c) \subseteq Ids(D)
         /\ \A c : IdIn(Coded(D, c)) \in Nat
         /\ \A c : IdIn(Coded(D, c)) = NoId <=> Coded(D, c) = {}
         /\ \A c : IdIn(Coded(D, c)) # NoId =>
               IdIn(Coded(D, c)) \in Ids(D) /\ D[IdIn(Coded(D, c))].code = c
         /\ \A d \in Ids(D) :
               Coded(D, D[d].code) = {d} /\ IdIn(Coded(D, D[d].code)) = d
<1>1. Ids(D) \subseteq Nat \ {0}
  BY RowsOfTable
<1>2. ASSUME NEW c
      PROVE  /\ Coded(D, c) \subseteq Ids(D)
             /\ IdIn(Coded(D, c)) \in Nat
             /\ IdIn(Coded(D, c)) = NoId <=> Coded(D, c) = {}
             /\ IdIn(Coded(D, c)) # NoId =>
                  IdIn(Coded(D, c)) \in Ids(D) /\ D[IdIn(Coded(D, c))].code = c
  <2>1. Coded(D, c) \subseteq Ids(D)
    BY DEF Coded
  <2>2. Coded(D, c) \in SUBSET (Nat \ {0})
    BY <1>1, <2>1
  <2>3. /\ IdIn(Coded(D, c)) \in Nat
        /\ Coded(D, c) # {} => IdIn(Coded(D, c)) \in Coded(D, c)
        /\ IdIn(Coded(D, c)) = NoId <=> Coded(D, c) = {}
    BY <2>2, IdInFacts
  <2>4. IdIn(Coded(D, c)) # NoId => IdIn(Coded(D, c)) \in Coded(D, c)
    BY <2>3
  <2>5. IdIn(Coded(D, c)) \in Coded(D, c) =>
          IdIn(Coded(D, c)) \in Ids(D) /\ D[IdIn(Coded(D, c))].code = c
    BY DEF Coded
  <2> QED
    BY <2>1, <2>3, <2>4, <2>5
<1>3. ASSUME NEW d \in Ids(D)
      PROVE  Coded(D, D[d].code) = {d} /\ IdIn(Coded(D, D[d].code)) = d
  <2>1. Coded(D, D[d].code) = {d}
    BY DEF Coded, CodesUnique
  <2>2. IdIn({d}) = d
    BY DEF IdIn
  <2> QED
    BY <2>1, <2>2
<1> QED
  BY <1>2, <1>3

LEMMA OnePerKey ==
  ASSUME NEW S, NEW D, Keyed(S, D)
  PROVE  /\ \A n \in Numbers : Cardinality(Numbered(S, n)) <= 1
         /\ \A c \in Codes : Cardinality(Coded(D, c)) <= 1
<1>1. S \in Seq(ServiceRow) /\ NumbersUnique(S) /\ D \in Seq(DeviceRow) /\ CodesUnique(D)
  BY DEF Keyed
<1>2. \A x : Cardinality({x}) = 1 /\ Cardinality({}) = 0
  BY FS_Singleton, FS_EmptySet
<1>3. ASSUME NEW n \in Numbers
      PROVE  Cardinality(Numbered(S, n)) <= 1
  <2>1. CASE Numbered(S, n) = {}
    BY <1>2, <2>1
  <2>2. CASE Numbered(S, n) # {}
    <3>1. PICK s \in Numbered(S, n) : TRUE
      BY <2>2
    <3>2. s \in Ids(S) /\ S[s].number = n
      BY <3>1 DEF Numbered
    <3>3. Numbered(S, n) = {s}
      BY <1>1, <3>2, NumberedFacts
    <3>4. Cardinality(Numbered(S, n)) = 1
      BY <1>2, <3>3
    <3> QED
      BY <3>4
  <2> QED
    BY <2>1, <2>2
<1>4. ASSUME NEW c \in Codes
      PROVE  Cardinality(Coded(D, c)) <= 1
  <2>1. CASE Coded(D, c) = {}
    BY <1>2, <2>1
  <2>2. CASE Coded(D, c) # {}
    <3>1. PICK d \in Coded(D, c) : TRUE
      BY <2>2
    <3>2. d \in Ids(D) /\ D[d].code = c
      BY <3>1 DEF Coded
    <3>3. Coded(D, c) = {d}
      BY <1>1, <3>2, CodedFacts
    <3>4. Cardinality(Coded(D, c)) = 1
      BY <1>2, <3>3
    <3> QED
      BY <3>4
  <2> QED
    BY <2>1, <2>2
<1> QED
  BY <1>3, <1>4
-----------------------------------------------------------------------------
(* The rows of a validated sheet. *)

StagedDevice == [code : Codes, id : Nat, base : Nat, keeper : Texts,
                 recovery : Texts]
StagedRow == [number : Numbers \cup {Blank}, manager : Texts, sver : Nat, dver : Nat,
              id : Nat, base : Nat, devices : SUBSET StagedDevice, error : BOOLEAN]

Sheet(rows) == rows \in Seq(Row) /\ \A i \in Ids(rows) : IsFiniteSet(rows[i].codes)

(* Rows with one number were matched with one service, and one service     *)
(* with rows of one number; so with codes and devices.  Without errors no  *)
(* code is in two rows.                                                    *)
Matched(staged) == \A i, j \in Ids(staged) :
    /\ IsFiniteSet(staged[i].devices)
    /\ ~staged[i].error => staged[i].number \in Numbers
    /\ staged[i].number = staged[j].number => staged[i].id = staged[j].id
    /\ staged[i].id = staged[j].id /\ staged[i].id # NoId
          => staged[i].number = staged[j].number
    /\ \A x \in staged[i].devices : \A y \in staged[j].devices :
          /\ x.id = y.id /\ x.id # NoId => x.code = y.code
          /\ x.code = y.code /\ ~staged[i].error /\ ~staged[j].error => i = j /\ x = y

DeviceOfRow(r, c) ==
    [code |-> c, id |-> DeviceOf(c), base |-> VersionOf(devices, DeviceOf(c)),
     keeper |-> r.keeper, recovery |-> r.recovery]

LEMMA StageIsTyped ==
  ASSUME Keyed(services, devices), NEW sheet, Sheet(sheet), NEW i \in Ids(sheet)
  PROVE  /\ Stage(sheet, i) \in StagedRow
         /\ IsFiniteSet(Stage(sheet, i).devices)
         /\ \A x \in Stage(sheet, i).devices :
               x.code \in sheet[i].codes /\ x = DeviceOfRow(sheet[i], x.code)
         /\ \A c \in sheet[i].codes : DeviceOfRow(sheet[i], c) \in Stage(sheet, i).devices
<1> DEFINE r == sheet[i]
           ds == {DeviceOfRow(r, c) : c \in r.codes}
<1>1. r \in Row /\ IsFiniteSet(r.codes)
  BY RowsOfTable DEF Sheet
<1>2. /\ services \in Seq(ServiceRow) /\ NumbersUnique(services)
      /\ devices \in Seq(DeviceRow) /\ CodesUnique(devices)
  BY DEF Keyed
<1>3. ServiceOf(r) \in Nat /\ (ServiceOf(r) # NoId => ServiceOf(r) \in Ids(services))
  BY <1>2, NumberedFacts DEF ServiceOf
<1>4. VersionOf(services, ServiceOf(r)) \in Nat
  <2>1. \A s \in Ids(services) : services[s] \in ServiceRow
    BY <1>2, RowsOfTable
  <2>2. \A s \in Ids(services) : services[s].version \in Nat
    BY <2>1 DEF ServiceRow
  <2> QED
    BY <1>3, <2>2 DEF VersionOf
<1>5. \A c : DeviceOf(c) \in Nat /\ (DeviceOf(c) # NoId => DeviceOf(c) \in Ids(devices))
  BY <1>2, CodedFacts DEF DeviceOf
<1>6. \A c : VersionOf(devices, DeviceOf(c)) \in Nat
  <2>1. \A d \in Ids(devices) : devices[d] \in DeviceRow
    BY <1>2, RowsOfTable
  <2>2. \A d \in Ids(devices) : devices[d].version \in Nat
    BY <2>1 DEF DeviceRow
  <2> QED
    BY <1>5, <2>2 DEF VersionOf
<1>7. r.keeper \in Texts /\ r.recovery \in Texts /\ r.codes \subseteq Codes
  BY <1>1 DEF Row
<1>8. ASSUME NEW c \in r.codes
      PROVE  DeviceOfRow(r, c) \in StagedDevice
  BY <1>5, <1>6, <1>7 DEF DeviceOfRow, StagedDevice
<1>9. IsFiniteSet(ds)
  <2> DEFINE f == [c \in r.codes |-> DeviceOfRow(r, c)]
  <2>1. ds = {f[c] : c \in r.codes} /\ f = [c \in r.codes |-> f[c]] /\ DOMAIN f = r.codes
    OBVIOUS
  <2> HIDE DEF f, ds
  <2> QED
    BY <1>1, <2>1, ImageIsFinite
<1>10. Stage(sheet, i) =
         [number |-> r.number, manager |-> r.manager, sver |-> r.sver, dver |-> r.dver,
          id |-> ServiceOf(r), base |-> VersionOf(services, ServiceOf(r)),
          devices |-> ds, error |-> Faulty(sheet, i)]
  BY DEF Stage, DeviceOfRow
<1>11. ds \in SUBSET StagedDevice
  BY <1>8
<1>12. Faulty(sheet, i) \in BOOLEAN
  BY DEF Faulty, WrongService, ServiceOutdated, Conflicts, LacksCode, RepeatsCode,
         WrongDevice, OwnedByOther, DeviceOutdated
<1>13. r.number \in Numbers \cup {Blank} /\ r.manager \in Texts /\ r.sver \in Nat /\ r.dver \in Nat
  BY <1>1 DEF Row
<1>14. Stage(sheet, i) \in StagedRow
  <2> HIDE DEF r, ds
  <2> QED
    BY <1>3, <1>4, <1>10, <1>11, <1>12, <1>13 DEF StagedRow
<1>15. \A x \in ds : x.code \in r.codes /\ x = DeviceOfRow(r, x.code)
  BY DEF DeviceOfRow
<1>16. Stage(sheet, i).devices = ds
  BY <1>10
<1> QED
  BY <1>9, <1>14, <1>15, <1>16
LEMMA ValidateIsMatched ==
  ASSUME Keyed(services, devices), NEW sheet, Sheet(sheet)
  PROVE  /\ Validate(sheet) \in Seq(StagedRow) /\ Ids(Validate(sheet)) = Ids(sheet)
         /\ \A i \in Ids(sheet) : Validate(sheet)[i] = Stage(sheet, i)
         /\ Matched(Validate(sheet))
<1> DEFINE v == Validate(sheet)
<1>1. sheet \in Seq(Row) /\ Len(sheet) \in Nat /\ Ids(sheet) = 1..Len(sheet)
  BY RowsOfTable DEF Sheet
<1>2. \A i \in Ids(sheet) : v[i] = Stage(sheet, i)
  BY DEF Validate
<1>3. v \in Seq(StagedRow) /\ Ids(v) = Ids(sheet)
  <2>1. \A i \in 1..Len(sheet) : Stage(sheet, i) \in StagedRow
    BY <1>1, StageIsTyped
  <2>2. v \in [1..Len(sheet) -> StagedRow]
    BY <1>1, <2>1 DEF Validate
  <2>3. v \in Seq(StagedRow) /\ Len(v) = Len(sheet)
    BY <1>1, <2>2, SeqOfFunction
  <2> QED
    BY <1>1, <2>3 DEF Ids
<1>4. /\ services \in Seq(ServiceRow) /\ NumbersUnique(services)
      /\ devices \in Seq(DeviceRow) /\ CodesUnique(devices)
  BY DEF Keyed
<1>5. ASSUME NEW i \in Ids(sheet)
      PROVE  /\ IsFiniteSet(v[i].devices)
             /\ v[i].number = sheet[i].number /\ v[i].id = ServiceOf(sheet[i])
             /\ v[i].error = Faulty(sheet, i)
             /\ \A x \in v[i].devices :
                  x.code \in sheet[i].codes /\ x = DeviceOfRow(sheet[i], x.code)
  <2>1. v[i] = Stage(sheet, i)
    BY <1>2
  <2>2. /\ IsFiniteSet(Stage(sheet, i).devices)
        /\ \A x \in Stage(sheet, i).devices :
              x.code \in sheet[i].codes /\ x = DeviceOfRow(sheet[i], x.code)
    BY StageIsTyped
  <2>3. /\ Stage(sheet, i).number = sheet[i].number
        /\ Stage(sheet, i).id = ServiceOf(sheet[i])
        /\ Stage(sheet, i).error = Faulty(sheet, i)
    BY DEF Stage
  <2> QED
    BY <2>1, <2>2, <2>3
<1>6. ASSUME NEW i \in Ids(sheet), ~v[i].error
      PROVE  v[i].number \in Numbers
  <2>1. sheet[i].number # Blank
    BY <1>5, <1>6 DEF Faulty
  <2>2. sheet[i] \in Row
    BY <1>1, RowsOfTable
  <2> QED
    BY <1>5, <2>1, <2>2 DEF Row
<1>7. ASSUME NEW i \in Ids(sheet), NEW j \in Ids(sheet)
      PROVE  /\ v[i].number = v[j].number => v[i].id = v[j].id
             /\ v[i].id = v[j].id /\ v[i].id # NoId => v[i].number = v[j].number
  <2>1. v[i].number = v[j].number => v[i].id = v[j].id
    BY <1>5 DEF ServiceOf
  <2>2. \A n : IdIn(Numbered(services, n)) # NoId =>
           services[IdIn(Numbered(services, n))].number = n
    BY <1>4, NumberedFacts
  <2> QED
    BY <1>5, <2>1, <2>2 DEF ServiceOf
<1>8. ASSUME NEW i \in Ids(sheet), NEW j \in Ids(sheet),
             NEW x \in v[i].devices, NEW y \in v[j].devices
      PROVE  /\ x.id = y.id /\ x.id # NoId => x.code = y.code
             /\ x.code = y.code /\ ~v[i].error /\ ~v[j].error => i = j /\ x = y
  <2>1. /\ x.code \in sheet[i].codes /\ x = DeviceOfRow(sheet[i], x.code)
        /\ y.code \in sheet[j].codes /\ y = DeviceOfRow(sheet[j], y.code)
    BY <1>5
  <2>2. x.id = DeviceOf(x.code) /\ y.id = DeviceOf(y.code)
    BY <2>1 DEF DeviceOfRow
  <2>3. \A c : DeviceOf(c) # NoId => devices[DeviceOf(c)].code = c
    BY <1>4, CodedFacts DEF DeviceOf
  <2>4. x.id = y.id /\ x.id # NoId => x.code = y.code
    BY <2>2, <2>3
  <2>5. ASSUME x.code = y.code, ~v[i].error, ~v[j].error
        PROVE  i = j /\ x = y
    <3>1. ~RepeatsCode(sheet, i) /\ ~RepeatsCode(sheet, j)
      BY <1>5, <2>5 DEF Faulty
    <3>2. First(Holders(sheet, x.code)) = i /\ First(Holders(sheet, y.code)) = j
      BY <2>1, <3>1 DEF RepeatsCode
    <3> QED
      BY <2>1, <2>5, <3>2
  <2> QED
    BY <2>4, <2>5
<1>9. Matched(v)
  <2> HIDE DEF v
  <2> QED
    BY <1>3, <1>5, <1>6, <1>7, <1>8 DEF Matched
<1> QED
  BY <1>2, <1>3, <1>9
-----------------------------------------------------------------------------
(* The items a clean sheet gives rise to. *)

BusinessItem == [id : Nat, base : Nat, number : Numbers, manager : Texts, from : Nat]
DeviceItem == [id : Nat, base : Nat, number : Numbers, code : Codes,
               keeper : Texts, recovery : Texts, from : Nat]

BusinessOf(row) == [id |-> row.id, base |-> row.base, number |-> row.number,
                    manager |-> row.manager, from |-> row.sver]
NetworkOf(row, data) == [id |-> data.id, base |-> data.base, number |-> row.number,
                         code |-> data.code, keeper |-> data.keeper,
                         recovery |-> data.recovery, from |-> row.dver]

Leads(staged, i) == First(Group(staged, staged[i].number)) = i

LEMMA GroupsHaveLeaders ==
  ASSUME NEW staged \in Seq(StagedRow), NEW i \in Ids(staged)
  PROVE  /\ First(Group(staged, staged[i].number)) \in Ids(staged)
         /\ staged[First(Group(staged, staged[i].number))].number = staged[i].number
         /\ Leads(staged, First(Group(staged, staged[i].number)))
<1> DEFINE g == Group(staged, staged[i].number)
<1>1. Ids(staged) \subseteq Nat
  BY RowsOfTable
<1>2. g \in SUBSET Nat /\ i \in g
  BY <1>1 DEF Group
<1>3. First(g) \in g
  BY <1>2, FirstIsIn
<1>4. First(g) \in Ids(staged) /\ staged[First(g)].number = staged[i].number
  BY <1>3 DEF Group
<1> QED
  BY <1>4 DEF Leads

LEMMA BusinessItemsFrom ==
  ASSUME NEW staged \in Seq(StagedRow)
  PROVE  /\ \A x \in BusinessItems(staged) : \E i \in Ids(staged) :
               Leads(staged, i) /\ BusinessChanged(staged[i]) /\ x = BusinessOf(staged[i])
         /\ \A i \in Ids(staged) : Leads(staged, i) /\ BusinessChanged(staged[i])
               => BusinessOf(staged[i]) \in BusinessItems(staged)
         /\ IsFiniteSet(BusinessItems(staged))
<1> DEFINE lead(i) == First(Group(staged, staged[i].number))
           firsts == {staged[lead(i)] : i \in Ids(staged)}
           changed == {r \in firsts : BusinessChanged(r)}
<1>1. BusinessItems(staged) = {BusinessOf(r) : r \in changed}
  BY DEF BusinessItems, BusinessOf
<1>2. ASSUME NEW r \in changed
      PROVE  \E i \in Ids(staged) : Leads(staged, i) /\ BusinessChanged(staged[i]) /\ r = staged[i]
  <2>1. PICK k \in Ids(staged) : r = staged[lead(k)]
    BY <1>2
  <2>2. lead(k) \in Ids(staged) /\ Leads(staged, lead(k))
    BY GroupsHaveLeaders
  <2> QED
    BY <1>2, <2>1, <2>2
<1>3. ASSUME NEW i \in Ids(staged), Leads(staged, i), BusinessChanged(staged[i])
      PROVE  staged[i] \in changed
  <2>1. staged[i] = staged[lead(i)]
    BY <1>3 DEF Leads
  <2> QED
    BY <1>3, <2>1
<1>4. IsFiniteSet(changed)
  <2> DEFINE f == [i \in Ids(staged) |-> staged[lead(i)]]
  <2>1. firsts = {f[i] : i \in Ids(staged)} /\ f = [i \in Ids(staged) |-> f[i]]
          /\ DOMAIN f = Ids(staged)
    OBVIOUS
  <2>2. IsFiniteSet(Ids(staged))
    BY RowsOfTable
  <2>3. IsFiniteSet(firsts)
    <3> HIDE DEF f, firsts
    <3> QED
      BY <2>1, <2>2, ImageIsFinite
  <2>4. changed \in SUBSET firsts
    OBVIOUS
  <2> QED
    BY <2>3, <2>4, FS_Subset
<1>5. IsFiniteSet({BusinessOf(r) : r \in changed})
  <2> DEFINE f == [r \in changed |-> BusinessOf(r)]
             image == {BusinessOf(r) : r \in changed}
  <2>1. image = {f[r] : r \in changed} /\ f = [r \in changed |-> f[r]] /\ DOMAIN f = changed
    OBVIOUS
  <2> HIDE DEF f, changed, image
  <2>2. IsFiniteSet(image)
    BY <1>4, <2>1, ImageIsFinite
  <2> QED
    BY <2>2 DEF image
<1> HIDE DEF changed
<1> QED
  BY <1>1, <1>2, <1>3, <1>5

LEMMA DeviceItemsFrom ==
  ASSUME NEW staged \in Seq(StagedRow), Matched(staged)
  PROVE  /\ \A x \in DeviceItems(staged) : \E i \in Ids(staged) :
               \E data \in staged[i].devices :
                  DeviceChanged(data) /\ x = NetworkOf(staged[i], data)
         /\ \A i \in Ids(staged) : \A data \in staged[i].devices :
               DeviceChanged(data) => NetworkOf(staged[i], data) \in DeviceItems(staged)
         /\ IsFiniteSet(DeviceItems(staged))
<1> DEFINE changed(i) == {x \in staged[i].devices : DeviceChanged(x)}
           its(i) == {NetworkOf(staged[i], data) : data \in changed(i)}
<1>1. DeviceItems(staged) = UNION {its(i) : i \in Ids(staged)}
  BY DEF DeviceItems, NetworkOf
<1>2. ASSUME NEW i \in Ids(staged)
      PROVE  IsFiniteSet(its(i))
  <2>1. IsFiniteSet(staged[i].devices)
    BY DEF Matched
  <2>2. changed(i) \in SUBSET staged[i].devices
    OBVIOUS
  <2>3. IsFiniteSet(changed(i))
    BY <2>1, <2>2, FS_Subset
  <2> DEFINE set == changed(i)
             f == [data \in set |-> NetworkOf(staged[i], data)]
             image == {NetworkOf(staged[i], data) : data \in set}
  <2>4. image = {f[data] : data \in set} /\ f = [data \in set |-> f[data]] /\ DOMAIN f = set
    OBVIOUS
  <2>5. IsFiniteSet(set) /\ its(i) = image
    BY <2>3
  <2> HIDE DEF f, set, image
  <2>6. IsFiniteSet(image)
    BY <2>4, <2>5, ImageIsFinite
  <2> QED
    BY <2>5, <2>6
<1>3. IsFiniteSet(UNION {its(i) : i \in Ids(staged)})
  <2> DEFINE family == {its(i) : i \in Ids(staged)}
             f == [i \in Ids(staged) |-> its(i)]
  <2>1. family = {f[i] : i \in Ids(staged)} /\ f = [i \in Ids(staged) |-> f[i]]
          /\ DOMAIN f = Ids(staged)
    OBVIOUS
  <2>2. IsFiniteSet(Ids(staged))
    BY RowsOfTable
  <2>3. \A t \in family : IsFiniteSet(t)
    BY <1>2
  <2>4. IsFiniteSet(family)
    <3> HIDE DEF f, family
    <3> QED
      BY <2>1, <2>2, ImageIsFinite
  <2> HIDE DEF family
  <2>5. IsFiniteSet(UNION family)
    BY <2>3, <2>4, FS_UNION
  <2> QED
    BY <2>5 DEF family
<1>4. ASSUME NEW x \in DeviceItems(staged)
      PROVE  \E i \in Ids(staged) : \E data \in staged[i].devices :
                DeviceChanged(data) /\ x = NetworkOf(staged[i], data)
  <2>1. PICK i \in Ids(staged) : x \in its(i)
    BY <1>1
  <2> QED
    BY <2>1
<1>5. ASSUME NEW i \in Ids(staged), NEW data \in staged[i].devices, DeviceChanged(data)
      PROVE  NetworkOf(staged[i], data) \in DeviceItems(staged)
  <2>1. NetworkOf(staged[i], data) \in its(i)
    BY <1>5
  <2> QED
    BY <1>1, <2>1
<1> QED
  BY <1>1, <1>3, <1>4, <1>5

(* A clean sheet has one item per record and key. *)
LEMMA ItemsAreDistinct ==
  ASSUME NEW staged \in Seq(StagedRow), Matched(staged), Clean(staged)
  PROVE  /\ BusinessItems(staged) \subseteq BusinessItem
         /\ DeviceItems(staged) \subseteq DeviceItem
         /\ \A a, b \in BusinessItems(staged) :
               a # b => (a.id # NoId => a.id # b.id) /\ a.number # b.number
         /\ \A a, b \in DeviceItems(staged) :
               a # b => (a.id # NoId => a.id # b.id) /\ a.code # b.code
<1>1. ASSUME NEW i \in Ids(staged)
      PROVE  staged[i] \in StagedRow /\ ~staged[i].error /\ staged[i].number \in Numbers
  BY RowsOfTable DEF Matched, Clean
<1>2. ASSUME NEW x \in BusinessItems(staged)
      PROVE  x \in BusinessItem
  <2>1. PICK i \in Ids(staged) : x = BusinessOf(staged[i])
    BY BusinessItemsFrom
  <2> QED
    BY <1>1, <2>1 DEF BusinessOf, BusinessItem, StagedRow
<1>3. ASSUME NEW x \in DeviceItems(staged)
      PROVE  x \in DeviceItem
  <2>1. PICK i \in Ids(staged) : \E data \in staged[i].devices : x = NetworkOf(staged[i], data)
    BY DeviceItemsFrom
  <2>2. PICK data \in staged[i].devices : x = NetworkOf(staged[i], data)
    BY <2>1
  <2>3. data \in StagedDevice /\ staged[i].dver \in Nat /\ staged[i].number \in Numbers
    BY <1>1 DEF StagedRow
  <2> QED
    BY <2>2, <2>3 DEF NetworkOf, DeviceItem, StagedDevice
<1>4. ASSUME NEW a \in BusinessItems(staged), NEW b \in BusinessItems(staged), a # b
      PROVE  (a.id # NoId => a.id # b.id) /\ a.number # b.number
  <2>1. PICK i \in Ids(staged) : Leads(staged, i) /\ a = BusinessOf(staged[i])
    BY BusinessItemsFrom
  <2>2. PICK j \in Ids(staged) : Leads(staged, j) /\ b = BusinessOf(staged[j])
    BY BusinessItemsFrom
  <2>3. /\ a.id = staged[i].id /\ a.number = staged[i].number
        /\ b.id = staged[j].id /\ b.number = staged[j].number
    BY <2>1, <2>2 DEF BusinessOf
  <2>4. staged[i].number # staged[j].number
    BY <1>4, <2>1, <2>2 DEF Leads
  <2> QED
    BY <2>3, <2>4 DEF Matched
<1>5. ASSUME NEW a \in DeviceItems(staged), NEW b \in DeviceItems(staged), a # b
      PROVE  (a.id # NoId => a.id # b.id) /\ a.code # b.code
  <2>1. PICK i \in Ids(staged) : \E x \in staged[i].devices : a = NetworkOf(staged[i], x)
    BY DeviceItemsFrom
  <2>2. PICK j \in Ids(staged) : \E y \in staged[j].devices : b = NetworkOf(staged[j], y)
    BY DeviceItemsFrom
  <2>3. PICK x \in staged[i].devices : a = NetworkOf(staged[i], x)
    BY <2>1
  <2>4. PICK y \in staged[j].devices : b = NetworkOf(staged[j], y)
    BY <2>2
  <2>5. a.id = x.id /\ a.code = x.code /\ b.id = y.id /\ b.code = y.code
    BY <2>3, <2>4 DEF NetworkOf
  <2>6. x.code # y.code
    <3>1. ASSUME x.code = y.code
          PROVE  FALSE
      <4>1. i = j /\ x = y
        BY <1>1, <3>1 DEF Matched
      <4> QED
        BY <1>5, <2>3, <2>4, <4>1
    <3> QED
      BY <3>1
  <2> QED
    BY <2>5, <2>6 DEF Matched
<1> QED
  BY <1>2, <1>3, <1>4, <1>5
-----------------------------------------------------------------------------
(* The export, and what a sheet made from it still tells of the ledger it  *)
(* was made from.                                                          *)

DevicesOf(D, s) == {d \in Ids(D) : D[d].service = s}
ServiceLines(S, D, s) ==
    IF DevicesOf(D, s) = {} THEN {Line(s, S[s], NoId, NoDevice)}
    ELSE {Line(s, S[s], d, D[d]) : d \in DevicesOf(D, s)}

LEMMA ExportIsASheet ==
  ASSUME NEW S \in Seq(ServiceRow), NEW D \in Seq(DeviceRow)
  PROVE  /\ Sheet(Export(S, D))
         /\ \A i \in Ids(Export(S, D)) : \E s \in Ids(S) :
               Export(S, D)[i] \in ServiceLines(S, D, s)
         /\ \A i, j \in Ids(Export(S, D)) : Export(S, D)[i] = Export(S, D)[j] => i = j
<1> DEFINE lines == UNION {ServiceLines(S, D, s) : s \in Ids(S)}
           E == Export(S, D)
<1>1. E = SetToSeq(lines)
  BY DEF Export, ServiceLines, DevicesOf
<1>2. /\ IsFiniteSet(Ids(S)) /\ \A s \in Ids(S) : S[s] \in ServiceRow /\ s \in Nat
      /\ IsFiniteSet(Ids(D)) /\ \A d \in Ids(D) : D[d] \in DeviceRow /\ d \in Nat
  BY RowsOfTable
<1>3. ASSUME NEW s \in Ids(S)
      PROVE  IsFiniteSet(ServiceLines(S, D, s))
  <2>1. CASE DevicesOf(D, s) = {}
    <3>1. ServiceLines(S, D, s) = {Line(s, S[s], NoId, NoDevice)}
      BY <2>1 DEF ServiceLines
    <3> QED
      BY <3>1, FS_Singleton
  <2>2. CASE DevicesOf(D, s) # {}
    <3> DEFINE set == DevicesOf(D, s)
               f == [d \in set |-> Line(s, S[s], d, D[d])]
               image == {Line(s, S[s], d, D[d]) : d \in set}
    <3>1. image = {f[d] : d \in set} /\ f = [d \in set |-> f[d]] /\ DOMAIN f = set
      OBVIOUS
    <3>2. ServiceLines(S, D, s) = image
      BY <2>2 DEF ServiceLines
    <3>3. set \in SUBSET Ids(D)
      BY DEF DevicesOf
    <3>4. IsFiniteSet(set)
      BY <1>2, <3>3, FS_Subset
    <3> HIDE DEF f, set, image
    <3>5. IsFiniteSet(image)
      BY <3>1, <3>4, ImageIsFinite
    <3> QED
      BY <3>2, <3>5
  <2> QED
    BY <2>1, <2>2
<1>4. IsFiniteSet(lines)
  <2> DEFINE family == {ServiceLines(S, D, s) : s \in Ids(S)}
             f == [s \in Ids(S) |-> ServiceLines(S, D, s)]
  <2>1. family = {f[s] : s \in Ids(S)} /\ f = [s \in Ids(S) |-> f[s]] /\ DOMAIN f = Ids(S)
    OBVIOUS
  <2>2. \A t \in family : IsFiniteSet(t)
    BY <1>3
  <2>3. IsFiniteSet(family)
    <3> HIDE DEF f, family
    <3> QED
      BY <1>2, <2>1, ImageIsFinite
  <2> HIDE DEF family
  <2>4. IsFiniteSet(UNION family)
    BY <2>2, <2>3, FS_UNION
  <2> QED
    BY <2>4 DEF family
<1>5. ASSUME NEW s \in Ids(S), NEW line \in ServiceLines(S, D, s)
      PROVE  line \in Row /\ IsFiniteSet(line.codes)
  <2>1. s \in Nat /\ S[s].number \in Numbers /\ Shown[S[s].manager] \in Texts
          /\ S[s].version \in Nat
    BY <1>2, TextsAre DEF ServiceRow
  <2>2. CASE DevicesOf(D, s) = {}
    <3>1. line = Line(s, S[s], NoId, NoDevice)
      BY <2>2 DEF ServiceLines
    <3>2. line.codes = {}
      BY <3>1, PartsAre DEF Line, NoDevice
    <3>3. line \in Row
      <4>1. line = [number |-> S[s].number, manager |-> Shown[S[s].manager],
                    codes |-> Parts[Blank], keeper |-> Blank, recovery |-> Blank,
                    sid |-> s, sver |-> S[s].version, did |-> 0, dver |-> 0]
        BY <3>1 DEF Line, NoDevice, NoId
      <4>2. Parts[Blank] \in SUBSET Codes /\ Blank \in Texts
        BY PartsAre, TextsAre
      <4> QED
        BY <2>1, <4>1, <4>2 DEF Row
    <3> QED
      BY <3>2, <3>3, FS_EmptySet
  <2>3. CASE DevicesOf(D, s) # {}
    <3>1. PICK d \in DevicesOf(D, s) : line = Line(s, S[s], d, D[d])
      BY <2>3 DEF ServiceLines
    <3>2. d \in Ids(D)
      BY DEF DevicesOf
    <3>3. D[d].code \in Codes /\ D[d].keeper \in Texts
            /\ D[d].recovery \in Texts /\ D[d].version \in Nat /\ d \in Nat
      BY <1>2, <3>2, TextsAre DEF DeviceRow
    <3>5. line.codes = Parts[D[d].code]
      BY <3>1 DEF Line
    <3>6. line.codes \in SUBSET Codes
      BY <3>3, <3>5, PartsAre
    <3>7. line = [number |-> S[s].number, manager |-> Shown[S[s].manager],
                  codes |-> line.codes, keeper |-> D[d].keeper,
                  recovery |-> D[d].recovery, sid |-> s, sver |-> S[s].version,
                  did |-> d, dver |-> D[d].version]
      BY <3>1 DEF Line
    <3>8. \A cs \in SUBSET Codes :
            [number |-> S[s].number, manager |-> Shown[S[s].manager],
             codes |-> cs, keeper |-> D[d].keeper,
             recovery |-> D[d].recovery, sid |-> s, sver |-> S[s].version,
             did |-> d, dver |-> D[d].version] \in Row
      BY <2>1, <3>3 DEF Row
    <3>10. line \in Row
      BY <3>6, <3>7, <3>8
    <3>9. IsFiniteSet(line.codes)
      BY <3>3, <3>5, PartsAre
    <3> QED
      BY <3>9, <3>10
  <2> QED
    BY <2>2, <2>3
<1>6. /\ E \in Seq(lines)
      /\ \A i, j \in Ids(E) : E[i] = E[j] => i = j
  <2> HIDE DEF lines, E
  <2> QED
    BY <1>1, <1>4, ListOfSet DEF Ids
<1>7. \A i \in Ids(E) : E[i] \in lines
  BY <1>6, ElementOfSeq DEF Ids
<1>8. \A i \in Ids(E) : \E s \in Ids(S) : E[i] \in ServiceLines(S, D, s)
  BY <1>7
<1>9. lines \subseteq Row
  BY <1>5
<1>10. E \in Seq(Row)
  <2> HIDE DEF lines, E
  <2> QED
    BY <1>6, <1>9, SeqMonotonic
<1>11. Sheet(E)
  BY <1>5, <1>8, <1>10 DEF Sheet
<1> QED
  BY <1>6, <1>8, <1>11

Snapshots == {<<>>} \cup (Seq(ServiceRow) \X Seq(DeviceRow))

LEMMA SnapshotFacts ==
  ASSUME NEW from \in Snapshots, from # <<>>
  PROVE  from[1] \in Seq(ServiceRow) /\ from[2] \in Seq(DeviceRow)
BY Zenon DEF Snapshots

LEMMA SnapshotOfTables ==
  ASSUME NEW S \in Seq(ServiceRow), NEW D \in Seq(DeviceRow)
  PROVE  /\ <<S, D>> \in Snapshots /\ <<S, D>> # <<>>
         /\ <<S, D>>[1] = S /\ <<S, D>>[2] = D
BY DEF Snapshots

(* The versions in a sheet are those of the export it was made from. *)
Copied(rows, from) == \A i \in Ids(rows) :
    /\ rows[i].sver # 0 =>
         /\ from # <<>> /\ rows[i].sid # NoId /\ rows[i].sid \in Ids(from[1])
         /\ rows[i].sver = from[1][rows[i].sid].version
    /\ rows[i].dver # 0 =>
         /\ from # <<>> /\ rows[i].did # NoId /\ rows[i].did \in Ids(from[2])
         /\ rows[i].dver = from[2][rows[i].did].version

(* So rows without errors were matched with the versions of the export. *)
Traced(staged, from) == \A i \in Ids(staged) : ~staged[i].error =>
    /\ staged[i].sver # 0 /\ staged[i].id # NoId =>
         /\ from # <<>> /\ staged[i].id \in Ids(from[1])
         /\ staged[i].base = from[1][staged[i].id].version
    /\ staged[i].dver # 0 => \A x \in staged[i].devices : x.id # NoId =>
         /\ from # <<>> /\ x.id \in Ids(from[2])
         /\ x.base = from[2][x.id].version

LEMMA ExportIsCopied ==
  ASSUME NEW S \in Seq(ServiceRow), NEW D \in Seq(DeviceRow)
  PROVE  Copied(Export(S, D), <<S, D>>)
<1> DEFINE E == Export(S, D)
<1>1. ASSUME NEW i \in Ids(E)
      PROVE  /\ E[i].sid # NoId /\ E[i].sid \in Ids(S) /\ E[i].sver = S[E[i].sid].version
             /\ E[i].dver # 0 =>
                  E[i].did # NoId /\ E[i].did \in Ids(D) /\ E[i].dver = D[E[i].did].version
  <2>1. PICK s \in Ids(S) : E[i] \in ServiceLines(S, D, s)
    BY ExportIsASheet
  <2>2. s # NoId /\ \A d \in Ids(D) : d # NoId
    BY RowsOfTable DEF NoId
  <2>3. CASE DevicesOf(D, s) = {}
    <3>1. E[i] = Line(s, S[s], NoId, NoDevice)
      BY <2>1, <2>3 DEF ServiceLines
    <3>2. E[i].sid = s /\ E[i].sver = S[s].version /\ E[i].dver = 0
      <4>1. NoDevice.version = 0
        BY DEF NoDevice
      <4> QED
        BY <3>1, <4>1 DEF Line
    <3> QED
      BY <2>2, <3>2
  <2>4. CASE DevicesOf(D, s) # {}
    <3>1. PICK d \in DevicesOf(D, s) : E[i] = Line(s, S[s], d, D[d])
      BY <2>1, <2>4 DEF ServiceLines
    <3>2. /\ E[i].sid = s /\ E[i].sver = S[s].version
          /\ E[i].did = d /\ E[i].dver = D[d].version /\ d \in Ids(D)
      BY <3>1 DEF Line, DevicesOf
    <3> QED
      BY <2>2, <3>2
  <2> QED
    BY <2>3, <2>4
<1>2. <<S, D>> # <<>> /\ <<S, D>>[1] = S /\ <<S, D>>[2] = D
  BY SnapshotOfTables
<1> HIDE DEF E
<1>3. Copied(E, <<S, D>>)
  BY <1>1, <1>2 DEF Copied
<1> QED
  BY <1>3 DEF E

LEMMA AlteredIsCopied ==
  ASSUME NEW sheet, Sheet(sheet), NEW from, Copied(sheet, from), NEW other \in Altered(sheet)
  PROVE  Sheet(other) /\ Copied(other, from)
<1>1. sheet \in Seq(Row) /\ Len(sheet) \in Nat /\ Ids(sheet) = 1..Len(sheet)
        /\ DOMAIN sheet = Ids(sheet)
  BY RowsOfTable DEF Sheet
<1>2. \A i \in Ids(sheet) : sheet[i] \in Row /\ IsFiniteSet(sheet[i].codes)
  BY RowsOfTable DEF Sheet
<1>3. ASSUME NEW o, o \in [1..Len(sheet) -> Row],
             \A i \in Ids(sheet) :
               /\ o[i].codes = sheet[i].codes
               /\ o[i].sid = sheet[i].sid /\ o[i].sver = sheet[i].sver
               /\ o[i].did = sheet[i].did /\ o[i].dver = sheet[i].dver
      PROVE  Sheet(o) /\ Copied(o, from)
  <2>1. o \in Seq(Row) /\ Len(o) = Len(sheet)
    BY <1>1, <1>3, SeqOfFunction
  <2>2. Ids(o) = Ids(sheet)
    BY <1>1, <2>1 DEF Ids
  <2>3. Sheet(o)
    BY <1>2, <1>3, <2>1, <2>2 DEF Sheet
  <2>4. Copied(o, from)
    BY <1>3, <2>2 DEF Copied
  <2> QED
    BY <2>3, <2>4
<1>4. ASSUME NEW n \in Numbers, NEW p \in Texts,
             other = [i \in Ids(sheet) |->
               IF sheet[i].number = n THEN [sheet[i] EXCEPT !.manager = p] ELSE sheet[i]]
      PROVE  Sheet(other) /\ Copied(other, from)
  <2>1. ASSUME NEW i \in Ids(sheet)
        PROVE  /\ other[i] \in Row /\ other[i].codes = sheet[i].codes
               /\ other[i].sid = sheet[i].sid /\ other[i].sver = sheet[i].sver
               /\ other[i].did = sheet[i].did /\ other[i].dver = sheet[i].dver
    <3>1. other[i] = IF sheet[i].number = n THEN [sheet[i] EXCEPT !.manager = p] ELSE sheet[i]
      BY <1>4
    <3>2. sheet[i] \in Row
      BY <1>2
    <3> QED
      BY <3>1, <3>2 DEF Row
  <2>2. other \in [1..Len(sheet) -> Row]
    BY <1>1, <1>4, <2>1
  <2> QED
    BY <1>3, <2>1, <2>2
<1>5. ASSUME NEW i \in Ids(sheet), NEW p \in Texts,
             other = [sheet EXCEPT ![i].keeper = p]
      PROVE  Sheet(other) /\ Copied(other, from)
  <2>1. ASSUME NEW j \in Ids(sheet)
        PROVE  /\ other[j] \in Row /\ other[j].codes = sheet[j].codes
               /\ other[j].sid = sheet[j].sid /\ other[j].sver = sheet[j].sver
               /\ other[j].did = sheet[j].did /\ other[j].dver = sheet[j].dver
    <3>1. other[j] = IF j = i THEN [sheet[j] EXCEPT !.keeper = p] ELSE sheet[j]
      BY <1>1, <1>5
    <3>2. sheet[j] \in Row
      BY <1>2
    <3> QED
      BY <3>1, <3>2 DEF Row
  <2>2. other \in [1..Len(sheet) -> Row]
    BY <1>1, <1>5, <2>1
  <2> QED
    BY <1>3, <2>1, <2>2
<1>6. ASSUME NEW i \in Ids(sheet), NEW p \in Texts, other = [sheet EXCEPT ![i].recovery = p]
      PROVE  Sheet(other) /\ Copied(other, from)
  <2>1. ASSUME NEW j \in Ids(sheet)
        PROVE  /\ other[j] \in Row /\ other[j].codes = sheet[j].codes
               /\ other[j].sid = sheet[j].sid /\ other[j].sver = sheet[j].sver
               /\ other[j].did = sheet[j].did /\ other[j].dver = sheet[j].dver
    <3>1. other[j] = IF j = i THEN [sheet[j] EXCEPT !.recovery = p] ELSE sheet[j]
      BY <1>1, <1>6
    <3>2. sheet[j] \in Row
      BY <1>2
    <3> QED
      BY <3>1, <3>2 DEF Row
  <2>2. other \in [1..Len(sheet) -> Row]
    BY <1>1, <1>6, <2>1
  <2> QED
    BY <1>3, <2>1, <2>2
<1>7. Entered \cup {Blank} \subseteq Texts /\ Entered \cup Unreadable \subseteq Texts
  BY TextsAre, LedgerAssumption
<1> QED
  BY <1>4, <1>5, <1>6, <1>7 DEF Altered

LEMMA ValidateIsTraced ==
  ASSUME Keyed(services, devices), NEW sheet, Sheet(sheet), NEW from, Copied(sheet, from)
  PROVE  Traced(Validate(sheet), from)
<1> DEFINE v == Validate(sheet)
<1>1. Ids(v) = Ids(sheet) /\ \A i \in Ids(sheet) : v[i] = Stage(sheet, i)
  BY ValidateIsMatched
<1> SUFFICES ASSUME NEW i \in Ids(sheet), ~v[i].error
    PROVE  /\ v[i].sver # 0 /\ v[i].id # NoId =>
               /\ from # <<>> /\ v[i].id \in Ids(from[1])
               /\ v[i].base = from[1][v[i].id].version
           /\ v[i].dver # 0 => \A x \in v[i].devices : x.id # NoId =>
               /\ from # <<>> /\ x.id \in Ids(from[2])
               /\ x.base = from[2][x.id].version
  BY <1>1 DEF Traced
<1>2. /\ v[i].sver = sheet[i].sver /\ v[i].id = ServiceOf(sheet[i])
      /\ v[i].base = VersionOf(services, ServiceOf(sheet[i]))
      /\ v[i].dver = sheet[i].dver /\ ~Faulty(sheet, i)
  <2> HIDE DEF v
  <2>1. v[i] = Stage(sheet, i)
    BY <1>1
  <2>2. /\ Stage(sheet, i).sver = sheet[i].sver
        /\ Stage(sheet, i).id = ServiceOf(sheet[i])
        /\ Stage(sheet, i).base = VersionOf(services, ServiceOf(sheet[i]))
        /\ Stage(sheet, i).dver = sheet[i].dver
        /\ Stage(sheet, i).error = Faulty(sheet, i)
    BY DEF Stage
  <2> QED
    BY <2>1, <2>2
<1>3. \A x \in v[i].devices : x.code \in sheet[i].codes /\ x = DeviceOfRow(sheet[i], x.code)
  BY <1>1, StageIsTyped
<1>4. ~WrongService(sheet[i]) /\ ~ServiceOutdated(sheet[i])
        /\ ~WrongDevice(sheet[i]) /\ ~DeviceOutdated(sheet[i])
  BY <1>2 DEF Faulty
<1>5. ASSUME v[i].sver # 0, v[i].id # NoId
      PROVE  /\ from # <<>> /\ v[i].id \in Ids(from[1])
             /\ v[i].base = from[1][v[i].id].version
  <2>1. /\ from # <<>> /\ sheet[i].sid # NoId /\ sheet[i].sid \in Ids(from[1])
        /\ sheet[i].sver = from[1][sheet[i].sid].version
    BY <1>2, <1>5 DEF Copied
  <2>2. v[i].id = sheet[i].sid
    BY <1>2, <1>4, <2>1 DEF WrongService
  <2>3. v[i].base = sheet[i].sver
    BY <1>2, <1>4, <1>5 DEF ServiceOutdated, VersionOf
  <2> QED
    BY <2>1, <2>2, <2>3
<1>6. ASSUME v[i].dver # 0, NEW x \in v[i].devices, x.id # NoId
      PROVE  /\ from # <<>> /\ x.id \in Ids(from[2])
             /\ x.base = from[2][x.id].version
  <2>1. /\ from # <<>> /\ sheet[i].did # NoId /\ sheet[i].did \in Ids(from[2])
        /\ sheet[i].dver = from[2][sheet[i].did].version
    BY <1>2, <1>6 DEF Copied
  <2>2. x.code \in sheet[i].codes /\ x.id = DeviceOf(x.code)
          /\ x.base = VersionOf(devices, DeviceOf(x.code))
    BY <1>3 DEF DeviceOfRow
  <2>3. x.id = sheet[i].did
    BY <1>4, <2>1, <2>2 DEF WrongDevice
  <2>4. x.base = sheet[i].dver
    BY <1>2, <1>4, <1>6, <2>2 DEF DeviceOutdated, VersionOf
  <2> QED
    BY <2>1, <2>3, <2>4
<1> QED
  BY <1>5, <1>6
-----------------------------------------------------------------------------
(* What an application writes. *)

Distinct(items) == \A a, b \in items : a # b /\ a.id # NoId => a.id # b.id
NumbersDistinct(items) == \A a, b \in items : a # b => a.number # b.number
CodesDistinct(items) == \A a, b \in items : a # b => a.code # b.code

NewService(x) == [number |-> x.number, manager |-> Stored[x.manager], version |-> 1]

(* A record is kept as it is or gets a later version. *)
Kept(old, new) == old = new \/ (old.version < new.version)
Grows ==
    /\ Ids(services) \subseteq Ids(services')
    /\ \A s \in Ids(services) : Kept(services[s], services'[s])
    /\ Ids(devices) \subseteq Ids(devices')
    /\ \A d \in Ids(devices) : Kept(devices[d], devices'[d])

OldService(z, m) == [z EXCEPT !.manager = m, !.version = @ + 1]

LEMMA ServiceRewritten ==
  ASSUME NEW z \in ServiceRow, NEW m \in Held
  PROVE  /\ OldService(z, m) \in ServiceRow /\ OldService(z, m).number = z.number
         /\ OldService(z, m).manager = m /\ OldService(z, m).version = z.version + 1
<1>1. OldService(z, m).number = z.number
  BY DEF OldService, ServiceRow
<1>2. OldService(z, m).manager = m
  BY DEF OldService, ServiceRow
<1>3. OldService(z, m).version = z.version + 1
  BY DEF OldService, ServiceRow
<1>4. z.version \in Nat \ {0}
  BY DEF ServiceRow
<1>5. z.version + 1 \in Nat \ {0}
  BY <1>4
<1>6. \A v \in Nat \ {0} : [z EXCEPT !.manager = m, !.version = v] \in ServiceRow
  BY DEF ServiceRow
<1>7. OldService(z, m) = [z EXCEPT !.manager = m, !.version = z.version + 1]
  BY Zenon DEF OldService
<1>8. OldService(z, m) \in ServiceRow
  BY <1>5, <1>6, <1>7
<1> QED
  BY <1>1, <1>2, <1>3, <1>8

LEMMA BusinessWritten ==
  ASSUME Keyed(services, devices),
         NEW items \in SUBSET BusinessItem, IsFiniteSet(items),
         Distinct(items), NumbersDistinct(items),
         \A x \in items : BusinessApplies(x), ApplyBusiness(items)
  PROVE  /\ services' \in Seq(ServiceRow) /\ NumbersUnique(services')
         /\ Ids(services) \subseteq Ids(services')
         /\ \A s \in Ids(services) :
               (\A x \in items : x.id # s) => services'[s] = services[s]
         /\ \A s \in Ids(services) : \A x \in items : x.id = s =>
               /\ services'[s].number = services[s].number
               /\ services'[s].manager = Stored[x.manager]
               /\ services'[s].version = services[s].version + 1
         /\ \A s \in Ids(services') \ Ids(services) : \E x \in items :
               x.id = NoId /\ services'[s] = NewService(x)
         /\ \A x \in items : x.id = NoId =>
               \E s \in Ids(services') : services'[s] = NewService(x)
<1> DEFINE its(s) == {x \in items : x.id = s}
           updated == [s \in Ids(services) |->
             IF its(s) = {} THEN services[s]
             ELSE [services[s] EXCEPT !.manager = Stored[(CHOOSE x \in its(s) : TRUE).manager],
                                      !.version = @ + 1]]
           creates == {y \in items : y.id = NoId}
           created == {NewService(x) : x \in creates}
           list == SetToSeq(created)
<1>1. services' = updated \o list
  BY DEF ApplyBusiness, NewService
<1>2. services \in Seq(ServiceRow) /\ NumbersUnique(services)
  BY DEF Keyed
<1>3. /\ Len(services) \in Nat /\ Ids(services) = 1..Len(services)
      /\ \A s \in Ids(services) : services[s] \in ServiceRow
  BY <1>2, RowsOfTable
<1>4. ASSUME NEW s \in Ids(services), NEW x \in items, x.id = s
      PROVE  updated[s] = OldService(services[s], Stored[x.manager])
  <2>1. x \in its(s)
    BY <1>4
  <2>2. (CHOOSE y \in its(s) : TRUE) \in its(s)
    BY <2>1
  <2>3. s # NoId
    BY <1>3 DEF NoId
  <2>4. (CHOOSE y \in its(s) : TRUE) = x
    BY <1>4, <2>2, <2>3 DEF Distinct
  <2> QED
    BY <2>1, <2>4 DEF OldService
<1>5. ASSUME NEW s \in Ids(services), \A x \in items : x.id # s
      PROVE  updated[s] = services[s]
  BY <1>5
<1>0. updated = [s \in Ids(services) |-> updated[s]]
  OBVIOUS
<1> HIDE DEF updated
<1>6. ASSUME NEW s \in Ids(services)
      PROVE  updated[s] \in ServiceRow /\ updated[s].number = services[s].number
  <2>1. services[s] \in ServiceRow
    BY <1>3
  <2>2. CASE \A x \in items : x.id # s
    <3>1. updated[s] = services[s]
      BY <1>5, <2>2
    <3> QED
      BY <2>1, <3>1
  <2>3. CASE \E x \in items : x.id = s
    <3>1. PICK x \in items : x.id = s
      BY <2>3
    <3>2. updated[s] = OldService(services[s], Stored[x.manager])
      BY <1>4, <3>1
    <3>3. Stored[x.manager] \in Held
      BY TextsAre DEF BusinessItem
    <3> QED
      BY <2>1, <3>2, <3>3, ServiceRewritten
  <2> QED
    BY <2>2, <2>3
<1>7. updated \in Seq(ServiceRow) /\ Ids(updated) = Ids(services)
  <2>1. updated \in [1..Len(services) -> ServiceRow]
    BY <1>0, <1>3, <1>6
  <2>2. updated \in Seq(ServiceRow) /\ Len(updated) = Len(services)
    BY <1>3, <2>1, SeqOfFunction
  <2> QED
    BY <1>3, <2>2 DEF Ids
<1>8. IsFiniteSet(created)
  <2> DEFINE f == [x \in creates |-> NewService(x)]
  <2>1. created = {f[x] : x \in creates} /\ f = [x \in creates |-> f[x]] /\ DOMAIN f = creates
    OBVIOUS
  <2>2. creates \in SUBSET items
    OBVIOUS
  <2>3. IsFiniteSet(creates)
    BY <2>2, FS_Subset
  <2> HIDE DEF f, creates, created
  <2> QED
    BY <2>1, <2>3, ImageIsFinite
<1>9. created \subseteq ServiceRow
  BY TextsAre DEF NewService, ServiceRow, BusinessItem
<1>10. /\ list \in Seq(ServiceRow)
       /\ \A i \in Ids(list) : list[i] \in created
       /\ \A i, j \in Ids(list) : list[i] = list[j] => i = j
       /\ \A x \in created : \E i \in Ids(list) : list[i] = x
  <2> HIDE DEF created
  <2>1. /\ list \in Seq(created)
        /\ \A i, j \in Ids(list) : list[i] = list[j] => i = j
        /\ \A x \in created : \E i \in Ids(list) : list[i] = x
    BY <1>8, ListOfSet DEF Ids
  <2>2. list \in Seq(ServiceRow)
    BY <1>9, <2>1, SeqMonotonic
  <2>3. \A i \in Ids(list) : list[i] \in created
    BY <2>1, RowsOfTable
  <2> QED
    BY <2>1, <2>2, <2>3
<1> HIDE DEF list, created, creates
<1>11. /\ services' \in Seq(ServiceRow) /\ Ids(services) \subseteq Ids(services')
       /\ Len(updated) \in Nat /\ Ids(services) \subseteq Nat \ {0}
       /\ \A s \in Ids(services) : services'[s] = updated[s]
       /\ \A s \in Ids(services') \ Ids(services) :
             s - Len(updated) \in Ids(list) /\ services'[s] = list[s - Len(updated)]
       /\ \A i \in Ids(list) :
             Len(updated) + i \in Ids(services') /\ services'[Len(updated) + i] = list[i]
  <2> DEFINE all == updated \o list
  <2>1. /\ all \in Seq(ServiceRow) /\ Len(updated) \in Nat
        /\ Ids(updated) \subseteq Ids(all) /\ Ids(updated) \subseteq Nat \ {0}
        /\ \A s \in Ids(updated) : all[s] = updated[s]
        /\ \A s \in Ids(all) \ Ids(updated) :
              s - Len(updated) \in Ids(list) /\ all[s] = list[s - Len(updated)]
        /\ \A i \in Ids(list) :
              Len(updated) + i \in Ids(all) /\ all[Len(updated) + i] = list[i]
    BY <1>7, <1>10, TableOf
  <2>2. services' = all
    BY <1>1
  <2> HIDE DEF all
  <2> QED
    BY <1>7, <2>1, <2>2
<1>12. ASSUME NEW s \in Ids(services') \ Ids(services)
       PROVE  \E x \in items : x.id = NoId /\ services'[s] = NewService(x)
  <2>1. services'[s] \in created
    BY <1>10, <1>11
  <2> QED
    BY <2>1 DEF created, creates
<1>13. ASSUME NEW x \in items, x.id = NoId
       PROVE  \E s \in Ids(services') : services'[s] = NewService(x)
  <2>1. NewService(x) \in created
    BY <1>13 DEF created, creates
  <2>2. PICK i \in Ids(list) : list[i] = NewService(x)
    BY <1>10, <2>1
  <2> QED
    BY <1>11, <2>2
<1>14. ASSUME NEW s \in Ids(services), NEW t \in Ids(services') \ Ids(services)
       PROVE  services'[s].number # services'[t].number
  <2>1. PICK x \in items : x.id = NoId /\ services'[t] = NewService(x)
    BY <1>12
  <2>2. Numbered(services, x.number) = {}
    BY <2>1 DEF BusinessApplies
  <2>3. services'[t].number = x.number
    BY <2>1 DEF NewService
  <2>4. services'[s].number = services[s].number
    BY <1>6, <1>11
  <2> QED
    BY <2>2, <2>3, <2>4 DEF Numbered
<1>15. NumbersUnique(services')
  <2> SUFFICES ASSUME NEW s \in Ids(services'), NEW t \in Ids(services'),
                      services'[s].number = services'[t].number
               PROVE  s = t
    BY DEF NumbersUnique
  <2>1. CASE s \in Ids(services) /\ t \in Ids(services)
    BY <1>2, <1>6, <1>11, <2>1 DEF NumbersUnique
  <2>2. CASE s \notin Ids(services) /\ t \notin Ids(services)
    <3>1. PICK x \in items : x.id = NoId /\ services'[s] = NewService(x)
      BY <1>12, <2>2
    <3>2. PICK y \in items : y.id = NoId /\ services'[t] = NewService(y)
      BY <1>12, <2>2
    <3>3. x.number = y.number
      BY <3>1, <3>2 DEF NewService
    <3>4. x = y
      BY <3>3 DEF NumbersDistinct
    <3>5. list[s - Len(updated)] = list[t - Len(updated)]
            /\ s - Len(updated) \in Ids(list) /\ t - Len(updated) \in Ids(list)
      BY <1>11, <2>2, <3>1, <3>2, <3>4
    <3>6. s - Len(updated) = t - Len(updated)
      BY <1>10, <3>5
    <3>7. s \in Nat /\ t \in Nat /\ Len(updated) \in Nat
      BY <1>11, RowsOfTable
    <3> QED
      BY <3>6, <3>7
  <2>3. CASE s \in Ids(services) /\ t \notin Ids(services)
    BY <1>14, <2>3
  <2>4. CASE s \notin Ids(services) /\ t \in Ids(services)
    BY <1>14, <2>4
  <2> QED
    BY <2>1, <2>2, <2>3, <2>4
<1>16. ASSUME NEW s \in Ids(services), NEW x \in items, x.id = s
       PROVE  /\ services'[s].number = services[s].number
              /\ services'[s].manager = Stored[x.manager]
              /\ services'[s].version = services[s].version + 1
  <2>1. services'[s] = OldService(services[s], Stored[x.manager])
    BY <1>4, <1>11, <1>16
  <2>2. services[s] \in ServiceRow
    BY <1>3
  <2>3. Stored[x.manager] \in Held
    BY TextsAre DEF BusinessItem
  <2> QED
    BY <2>1, <2>2, <2>3, ServiceRewritten
<1>17. ASSUME NEW s \in Ids(services), \A x \in items : x.id # s
       PROVE  services'[s] = services[s]
  BY <1>5, <1>11, <1>17
<1> QED
  BY <1>11, <1>12, <1>13, <1>15, <1>16, <1>17

OldDevice(z, x) == [Written(x, z.version + 1) EXCEPT !.code = z.code]

LEMMA WrittenIsTyped ==
  ASSUME Keyed(services, devices), NEW x \in DeviceItem, Numbered(services, x.number) # {},
         NEW v \in Nat \ {0}
  PROVE  /\ Written(x, v) \in DeviceRow
         /\ Written(x, v).code = x.code
         /\ Written(x, v).service = IdIn(Numbered(services, x.number))
         /\ Written(x, v).service \in Ids(services)
         /\ Written(x, v).keeper = x.keeper
         /\ Written(x, v).recovery = Stored[x.recovery]
         /\ Written(x, v).version = v
<1> DEFINE s == IdIn(Numbered(services, x.number))
<1>1. services \in Seq(ServiceRow) /\ NumbersUnique(services)
  BY DEF Keyed
<1>2. s \in Ids(services)
  BY <1>1, NumberedFacts
<1>3. s \in Nat \ {0}
  BY <1>1, <1>2, RowsOfTable
<1>4. x.code \in Codes /\ x.keeper \in Texts /\ x.recovery \in Texts
  BY DEF DeviceItem
<1>5. Stored[x.recovery] \in Held
  BY <1>4, TextsAre
<1>6. Written(x, v) = [code |-> x.code, service |-> s, keeper |-> x.keeper,
                       recovery |-> Stored[x.recovery], version |-> v]
  BY DEF Written
<1> HIDE DEF s
<1>7. Written(x, v) \in DeviceRow
  <2>1. \A r \in Held :
           [code |-> x.code, service |-> s, keeper |-> x.keeper,
            recovery |-> r, version |-> v] \in DeviceRow
    BY <1>3, <1>4 DEF DeviceRow
  <2> QED
    BY <1>5, <1>6, <2>1
<1>8. /\ Written(x, v).code = x.code /\ Written(x, v).service = s
      /\ Written(x, v).keeper = x.keeper /\ Written(x, v).recovery = Stored[x.recovery]
      /\ Written(x, v).version = v
  BY <1>6
<1> QED
  BY <1>2, <1>7, <1>8 DEF s

LEMMA DeviceRewritten ==
  ASSUME Keyed(services, devices), NEW d \in Ids(devices),
         NEW x \in DeviceItem, x.id = d, DeviceApplies(x)
  PROVE  /\ OldDevice(devices[d], x) \in DeviceRow
         /\ OldDevice(devices[d], x).code = devices[d].code
         /\ OldDevice(devices[d], x).service = devices[d].service
         /\ OldDevice(devices[d], x).keeper = x.keeper
         /\ OldDevice(devices[d], x).recovery = Stored[x.recovery]
         /\ OldDevice(devices[d], x).version = devices[d].version + 1
<1> DEFINE v == devices[d].version + 1
           w == Written(x, v)
           c == devices[d].code
<1>1. devices[d] \in DeviceRow /\ d # NoId
  BY RowsOfTable DEF Keyed, NoId
<1>2. v \in Nat \ {0} /\ c \in Codes
  <2>1. devices[d].version \in Nat \ {0} /\ c \in Codes
    BY <1>1 DEF DeviceRow
  <2> QED
    BY <2>1
<1>3. /\ Numbered(services, x.number) # {}
      /\ devices[d].service = IdIn(Numbered(services, x.number))
  BY <1>1 DEF DeviceApplies
<1>4. /\ w \in DeviceRow /\ w.service = devices[d].service /\ w.keeper = x.keeper
      /\ w.recovery = Stored[x.recovery] /\ w.version = v
  <2> HIDE DEF v
  <2> QED
    BY <1>2, <1>3, WrittenIsTyped
<1>5. OldDevice(devices[d], x) = [w EXCEPT !.code = c]
  BY DEF OldDevice
<1> HIDE DEF w, c, v
<1>6. /\ [w EXCEPT !.code = c] \in DeviceRow /\ [w EXCEPT !.code = c].code = c
      /\ [w EXCEPT !.code = c].service = w.service
      /\ [w EXCEPT !.code = c].keeper = w.keeper
      /\ [w EXCEPT !.code = c].recovery = w.recovery
      /\ [w EXCEPT !.code = c].version = w.version
  BY <1>2, <1>4 DEF DeviceRow
<1> QED
  BY <1>4, <1>5, <1>6 DEF c, v

LEMMA NetworkWritten ==
  ASSUME Keyed(services, devices),
         NEW items \in SUBSET DeviceItem, IsFiniteSet(items),
         Distinct(items), CodesDistinct(items),
         \A x \in items : DeviceApplies(x), ApplyDevices(items)
  PROVE  /\ devices' \in Seq(DeviceRow) /\ CodesUnique(devices')
         /\ \A d \in Ids(devices') : devices'[d].service \in Ids(services)
         /\ Ids(devices) \subseteq Ids(devices')
         /\ \A d \in Ids(devices) :
               (\A x \in items : x.id # d) => devices'[d] = devices[d]
         /\ \A d \in Ids(devices) : \A x \in items : x.id = d =>
               /\ devices'[d].code = devices[d].code
               /\ devices'[d].service = devices[d].service
               /\ devices'[d].keeper = x.keeper
               /\ devices'[d].recovery = Stored[x.recovery]
               /\ devices'[d].version = devices[d].version + 1
         /\ \A d \in Ids(devices') \ Ids(devices) : \E x \in items :
               x.id = NoId /\ devices'[d] = Written(x, 1)
         /\ \A x \in items : x.id = NoId =>
               \E d \in Ids(devices') : devices'[d] = Written(x, 1)
<1> DEFINE its(d) == {x \in items : x.id = d}
           updated == [d \in Ids(devices) |->
             IF its(d) = {} THEN devices[d]
             ELSE [Written(CHOOSE x \in its(d) : TRUE, devices[d].version + 1)
                     EXCEPT !.code = devices[d].code]]
           creates == {y \in items : y.id = NoId}
           created == {Written(x, 1) : x \in creates}
           list == SetToSeq(created)
<1>1. devices' = updated \o list
  BY DEF ApplyDevices
<1>2. devices \in Seq(DeviceRow) /\ CodesUnique(devices)
  BY DEF Keyed
<1>3. /\ Len(devices) \in Nat /\ Ids(devices) = 1..Len(devices)
      /\ \A d \in Ids(devices) : devices[d] \in DeviceRow
  BY <1>2, RowsOfTable
<1>4. ASSUME NEW d \in Ids(devices), NEW x \in items, x.id = d
      PROVE  updated[d] = OldDevice(devices[d], x)
  <2>1. x \in its(d)
    BY <1>4
  <2>2. (CHOOSE y \in its(d) : TRUE) \in its(d)
    BY <2>1
  <2>3. d # NoId
    BY <1>3 DEF NoId
  <2>4. (CHOOSE y \in its(d) : TRUE) = x
    BY <1>4, <2>2, <2>3 DEF Distinct
  <2> QED
    BY <2>1, <2>4 DEF OldDevice
<1>5. ASSUME NEW d \in Ids(devices), \A x \in items : x.id # d
      PROVE  updated[d] = devices[d]
  BY <1>5
<1>0. updated = [d \in Ids(devices) |-> updated[d]]
  OBVIOUS
<1> HIDE DEF updated
<1>6. ASSUME NEW d \in Ids(devices)
      PROVE  /\ updated[d] \in DeviceRow /\ updated[d].code = devices[d].code
             /\ updated[d].service = devices[d].service
  <2>1. devices[d] \in DeviceRow
    BY <1>3
  <2>2. CASE \A x \in items : x.id # d
    <3>1. updated[d] = devices[d]
      BY <1>5, <2>2
    <3> QED
      BY <2>1, <3>1
  <2>3. CASE \E x \in items : x.id = d
    <3>1. PICK x \in items : x.id = d
      BY <2>3
    <3>2. updated[d] = OldDevice(devices[d], x)
      BY <1>4, <3>1
    <3>3. x \in DeviceItem /\ DeviceApplies(x)
      OBVIOUS
    <3> QED
      BY <3>1, <3>2, <3>3, DeviceRewritten
  <2> QED
    BY <2>2, <2>3
<1>7. updated \in Seq(DeviceRow) /\ Ids(updated) = Ids(devices)
  <2>1. updated \in [1..Len(devices) -> DeviceRow]
    BY <1>0, <1>3, <1>6
  <2>2. updated \in Seq(DeviceRow) /\ Len(updated) = Len(devices)
    BY <1>3, <2>1, SeqOfFunction
  <2> QED
    BY <1>3, <2>2 DEF Ids
<1>8. IsFiniteSet(created)
  <2> DEFINE f == [x \in creates |-> Written(x, 1)]
  <2>1. created = {f[x] : x \in creates} /\ f = [x \in creates |-> f[x]] /\ DOMAIN f = creates
    OBVIOUS
  <2>2. creates \in SUBSET items
    OBVIOUS
  <2>3. IsFiniteSet(creates)
    BY <2>2, FS_Subset
  <2> HIDE DEF f, creates, created
  <2> QED
    BY <2>1, <2>3, ImageIsFinite
<1>9. \A w \in created : w \in DeviceRow /\ w.service \in Ids(services)
  <2> SUFFICES ASSUME NEW x \in creates
               PROVE  Written(x, 1) \in DeviceRow /\ Written(x, 1).service \in Ids(services)
    OBVIOUS
  <2>1. x \in DeviceItem /\ Numbered(services, x.number) # {}
    BY DEF DeviceApplies
  <2>2. 1 \in Nat \ {0}
    OBVIOUS
  <2> QED
    BY <2>1, <2>2, WrittenIsTyped
<1>10. /\ list \in Seq(DeviceRow)
       /\ \A i \in Ids(list) : list[i] \in created
       /\ \A i, j \in Ids(list) : list[i] = list[j] => i = j
       /\ \A x \in created : \E i \in Ids(list) : list[i] = x
  <2> HIDE DEF created
  <2>1. /\ list \in Seq(created)
        /\ \A i, j \in Ids(list) : list[i] = list[j] => i = j
        /\ \A x \in created : \E i \in Ids(list) : list[i] = x
    BY <1>8, ListOfSet DEF Ids
  <2>2. created \subseteq DeviceRow
    BY <1>9
  <2>3. list \in Seq(DeviceRow)
    BY <2>1, <2>2, SeqMonotonic
  <2>4. \A i \in Ids(list) : list[i] \in created
    BY <2>1, RowsOfTable
  <2> QED
    BY <2>1, <2>3, <2>4
<1> HIDE DEF list, created, creates
<1>11. /\ devices' \in Seq(DeviceRow) /\ Ids(devices) \subseteq Ids(devices')
       /\ Len(updated) \in Nat /\ Ids(devices) \subseteq Nat \ {0}
       /\ \A d \in Ids(devices) : devices'[d] = updated[d]
       /\ \A d \in Ids(devices') \ Ids(devices) :
             d - Len(updated) \in Ids(list) /\ devices'[d] = list[d - Len(updated)]
       /\ \A i \in Ids(list) :
             Len(updated) + i \in Ids(devices') /\ devices'[Len(updated) + i] = list[i]
  <2> DEFINE all == updated \o list
  <2>1. /\ all \in Seq(DeviceRow) /\ Len(updated) \in Nat
        /\ Ids(updated) \subseteq Ids(all) /\ Ids(updated) \subseteq Nat \ {0}
        /\ \A d \in Ids(updated) : all[d] = updated[d]
        /\ \A d \in Ids(all) \ Ids(updated) :
              d - Len(updated) \in Ids(list) /\ all[d] = list[d - Len(updated)]
        /\ \A i \in Ids(list) :
              Len(updated) + i \in Ids(all) /\ all[Len(updated) + i] = list[i]
    BY <1>7, <1>10, TableOf
  <2>2. devices' = all
    BY <1>1
  <2> HIDE DEF all
  <2> QED
    BY <1>7, <2>1, <2>2
<1>12. ASSUME NEW d \in Ids(devices') \ Ids(devices)
       PROVE  \E x \in items : x.id = NoId /\ devices'[d] = Written(x, 1)
  <2>1. devices'[d] \in created
    BY <1>10, <1>11
  <2> QED
    BY <2>1 DEF created, creates
<1>13. ASSUME NEW x \in items, x.id = NoId
       PROVE  \E d \in Ids(devices') : devices'[d] = Written(x, 1)
  <2>1. Written(x, 1) \in created
    BY <1>13 DEF created, creates
  <2>2. PICK i \in Ids(list) : list[i] = Written(x, 1)
    BY <1>10, <2>1
  <2> QED
    BY <1>11, <2>2
<1>14. ASSUME NEW d \in Ids(devices), NEW e \in Ids(devices') \ Ids(devices)
       PROVE  devices'[d].code # devices'[e].code
  <2>1. PICK x \in items : x.id = NoId /\ devices'[e] = Written(x, 1)
    BY <1>12
  <2>2. Coded(devices, x.code) = {}
    BY <2>1 DEF DeviceApplies
  <2>3. devices'[e].code = x.code
    BY <2>1 DEF Written
  <2>4. devices'[d].code = devices[d].code
    BY <1>6, <1>11
  <2> QED
    BY <2>2, <2>3, <2>4 DEF Coded
<1>15. CodesUnique(devices')
  <2> SUFFICES ASSUME NEW d \in Ids(devices'), NEW e \in Ids(devices'),
                      devices'[d].code = devices'[e].code
               PROVE  d = e
    BY DEF CodesUnique
  <2>1. CASE d \in Ids(devices) /\ e \in Ids(devices)
    BY <1>2, <1>6, <1>11, <2>1 DEF CodesUnique
  <2>2. CASE d \notin Ids(devices) /\ e \notin Ids(devices)
    <3>1. PICK x \in items : x.id = NoId /\ devices'[d] = Written(x, 1)
      BY <1>12, <2>2
    <3>2. PICK y \in items : y.id = NoId /\ devices'[e] = Written(y, 1)
      BY <1>12, <2>2
    <3>3. x.code = y.code
      BY <3>1, <3>2 DEF Written
    <3>4. x = y
      BY <3>3 DEF CodesDistinct
    <3>5. list[d - Len(updated)] = list[e - Len(updated)]
            /\ d - Len(updated) \in Ids(list) /\ e - Len(updated) \in Ids(list)
      BY <1>11, <2>2, <3>1, <3>2, <3>4
    <3>6. d - Len(updated) = e - Len(updated)
      BY <1>10, <3>5
    <3>7. d \in Nat /\ e \in Nat /\ Len(updated) \in Nat
      BY <1>11, RowsOfTable
    <3> QED
      BY <3>6, <3>7
  <2>3. CASE d \in Ids(devices) /\ e \notin Ids(devices)
    BY <1>14, <2>3
  <2>4. CASE d \notin Ids(devices) /\ e \in Ids(devices)
    BY <1>14, <2>4
  <2> QED
    BY <2>1, <2>2, <2>3, <2>4
<1>16. ASSUME NEW d \in Ids(devices), NEW x \in items, x.id = d
       PROVE  /\ devices'[d].code = devices[d].code
              /\ devices'[d].service = devices[d].service
              /\ devices'[d].keeper = x.keeper
              /\ devices'[d].recovery = Stored[x.recovery]
              /\ devices'[d].version = devices[d].version + 1
  <2>1. devices'[d] = OldDevice(devices[d], x)
    BY <1>4, <1>11, <1>16
  <2>2. x \in DeviceItem /\ DeviceApplies(x)
    OBVIOUS
  <2> QED
    BY <1>16, <2>1, <2>2, DeviceRewritten
<1>17. ASSUME NEW d \in Ids(devices), \A x \in items : x.id # d
       PROVE  devices'[d] = devices[d]
  BY <1>5, <1>11, <1>17
<1>18. ASSUME NEW d \in Ids(devices')
       PROVE  devices'[d].service \in Ids(services)
  <2>1. CASE d \in Ids(devices)
    BY <1>6, <1>11, <2>1 DEF Keyed
  <2>2. CASE d \notin Ids(devices)
    BY <1>9, <1>10, <1>11, <2>2
  <2> QED
    BY <2>1, <2>2
<1> QED
  BY <1>11, <1>12, <1>13, <1>15, <1>16, <1>17, <1>18
-----------------------------------------------------------------------------
(* The inductive invariant. *)

BatchStatus == {"none", "ready", "reviewing", "rejected", "applied"}
SetStatus == {"none", "submitted", "approved", "returned", "rejected", "applied"}
Item == BusinessItem \cup DeviceItem

Types ==
    /\ Keyed(services, devices)
    /\ exported \in Snapshots
    /\ batch \in [status : BatchStatus, rows : Seq(Row), staged : Seq(StagedRow),
                  from : Snapshots]
    /\ sets \in [Domain -> [status : SetStatus, items : SUBSET Item]]
    /\ left \in BOOLEAN /\ fresh \in BOOLEAN

RowsOK ==
    /\ Sheet(batch.rows) /\ Copied(batch.rows, batch.from)
    /\ Matched(batch.staged) /\ Traced(batch.staged, batch.from)

(* Items made from an export name the version it had of their record. *)
ItemsTraced(items, from, k) == \A x \in items : x.id # NoId /\ x.from # 0 =>
    from # <<>> /\ x.id \in Ids(from[k]) /\ x.base = from[k][x.id].version

ItemsOK ==
    /\ sets["business"].items \subseteq BusinessItem /\ IsFiniteSet(sets["business"].items)
    /\ Distinct(sets["business"].items) /\ NumbersDistinct(sets["business"].items)
    /\ ItemsTraced(sets["business"].items, batch.from, 1)
    /\ sets["network"].items \subseteq DeviceItem /\ IsFiniteSet(sets["network"].items)
    /\ Distinct(sets["network"].items) /\ CodesDistinct(sets["network"].items)
    /\ ItemsTraced(sets["network"].items, batch.from, 2)

(* A record of an earlier ledger is still there, as it was or later. *)
Earlier(from, S, D) == from # <<>> =>
    /\ \A s \in Ids(from[1]) : s \in Ids(S) /\ Kept(from[1][s], S[s])
    /\ \A d \in Ids(from[2]) : d \in Ids(D) /\ Kept(from[2][d], D[d])

IInv ==
    /\ Types /\ RowsOK /\ ItemsOK
    /\ Earlier(exported, services, devices) /\ Earlier(batch.from, services, devices)

LEMMA DomainIs == Domain = {"business", "network"}
BY DEF Domain

LEMMA InvImpliesTypeOK ==
  ASSUME IInv
  PROVE  TypeOK
<1>1. Keyed(services, devices)
  BY DEF IInv, Types
<1>2. /\ services \in Seq(ServiceRow) /\ devices \in Seq(DeviceRow)
      /\ \A d \in Ids(devices) : devices[d].service \in Ids(services)
  BY <1>1 DEF Keyed
<1>3. /\ \A n \in Numbers : Cardinality(Numbered(services, n)) <= 1
      /\ \A c \in Codes : Cardinality(Coded(devices, c)) <= 1
  BY <1>1, OnePerKey
<1>4. /\ batch.status \in BatchStatus /\ \A d \in Domain : sets[d].status \in SetStatus
      /\ left \in BOOLEAN /\ fresh \in BOOLEAN
  BY DEF IInv, Types
<1> QED
  BY <1>2, <1>3, <1>4 DEF TypeOK, BatchStatus, SetStatus

LEMMA InvImpliesOneItem ==
  ASSUME IInv
  PROVE  OneItemPerRecord
<1>1. ASSUME NEW a \in sets["business"].items, NEW b \in sets["business"].items, a # b
      PROVE  (a.id # NoId => a.id # b.id) /\ a.number # b.number
  BY <1>1 DEF IInv, ItemsOK, Distinct, NumbersDistinct
<1>2. ASSUME NEW a \in sets["network"].items, NEW b \in sets["network"].items, a # b
      PROVE  (a.id # NoId => a.id # b.id) /\ a.code # b.code
  BY <1>2 DEF IInv, ItemsOK, Distinct, CodesDistinct
<1> QED
  BY <1>1, <1>2, DomainIs DEF OneItemPerRecord

LEMMA InitHolds == Init => IInv
<1> SUFFICES ASSUME Init PROVE IInv
  OBVIOUS
<1>1. /\ services = Services0 /\ devices = Devices0 /\ exported = <<>>
      /\ batch = NoBatch /\ sets = NoSets /\ left = FALSE /\ fresh = TRUE
  BY DEF Init
<1>2. /\ Services0 \in Seq(ServiceRow) /\ Devices0 \in Seq(DeviceRow)
      /\ \A s, t \in DOMAIN Services0 : Services0[s].number = Services0[t].number => s = t
      /\ \A d, e \in DOMAIN Devices0 : Devices0[d].code = Devices0[e].code => d = e
      /\ \A d \in DOMAIN Devices0 : Devices0[d].service \in DOMAIN Services0
  BY LedgerAssumption
<1>3. DOMAIN Services0 = Ids(Services0) /\ DOMAIN Devices0 = Ids(Devices0)
  BY <1>2, RowsOfTable
<1>4. Keyed(services, devices)
  BY <1>1, <1>2, <1>3 DEF Keyed, NumbersUnique, CodesUnique
<1>5. <<>> \in Seq(Row) /\ <<>> \in Seq(StagedRow) /\ Len(<<>>) = 0 /\ <<>> \in Snapshots
  BY EmptySeq, Zenon DEF Snapshots
<1>6. Ids(<<>>) = {}
  BY <1>5 DEF Ids
<1>7. /\ batch.status = "none" /\ batch.rows = <<>> /\ batch.staged = <<>> /\ batch.from = <<>>
      /\ batch \in [status : BatchStatus, rows : Seq(Row), staged : Seq(StagedRow),
                    from : Snapshots]
  <2>1. "none" \in BatchStatus
    BY DEF BatchStatus
  <2>2. NoBatch = [status |-> "none", rows |-> <<>>, staged |-> <<>>, from |-> <<>>]
    BY DEF NoBatch
  <2>3. /\ NoBatch.status = "none" /\ NoBatch.rows = <<>> /\ NoBatch.staged = <<>>
        /\ NoBatch.from = <<>>
    BY <2>2, Zenon
  <2>4. NoBatch \in [status : BatchStatus, rows : Seq(Row), staged : Seq(StagedRow),
                     from : Snapshots]
    BY <1>5, <2>1, <2>2, Zenon
  <2> QED
    BY <1>1, <2>3, <2>4, Zenon
<1>8. /\ sets \in [Domain -> [status : SetStatus, items : SUBSET Item]]
      /\ \A d \in Domain : sets[d].items = {}
  BY <1>1 DEF NoSets, NoSet, SetStatus
<1>9. RowsOK
  <2>1. \A i \in Ids(<<>>) : FALSE
    BY <1>6
  <2> QED
    BY <1>5, <1>7, <2>1, Zenon DEF RowsOK, Sheet, Copied, Matched, Traced
<1>10. ItemsOK
  BY <1>8, DomainIs, FS_EmptySet
     DEF ItemsOK, Distinct, NumbersDistinct, CodesDistinct, ItemsTraced
<1>11. Earlier(exported, services, devices) /\ Earlier(batch.from, services, devices)
  BY <1>1, <1>7, Zenon DEF Earlier
<1> QED
  BY <1>1, <1>4, <1>5, <1>7, <1>8, <1>9, <1>10, <1>11 DEF IInv, Types
-----------------------------------------------------------------------------
(* The forms. *)

Put(s, i, e) == [s EXCEPT ![i] = e]

LEMMA RowReplaced ==
  ASSUME NEW S, NEW s \in Seq(S), NEW i \in Ids(s), NEW e \in S
  PROVE  /\ Put(s, i, e) \in Seq(S) /\ Ids(Put(s, i, e)) = Ids(s)
         /\ Put(s, i, e)[i] = e
         /\ \A j \in Ids(s) : j # i => Put(s, i, e)[j] = s[j]
<1>1. i \in 1..Len(s) /\ Ids(s) = 1..Len(s)
  BY DEF Ids
<1>2. /\ [s EXCEPT ![i] = e] \in Seq(S) /\ Len([s EXCEPT ![i] = e]) = Len(s)
      /\ \A j \in 1..Len(s) : [s EXCEPT ![i] = e][j] = IF j = i THEN e ELSE s[j]
  BY <1>1, ExceptSeq
<1>3. Ids([s EXCEPT ![i] = e]) = Ids(s)
  BY <1>2 DEF Ids
<1> QED
  BY <1>1, <1>2, <1>3 DEF Put

NextVersion(z) == [z EXCEPT !.version = @ + 1]

LEMMA ServiceVersioned ==
  ASSUME NEW z \in ServiceRow
  PROVE  /\ NextVersion(z) \in ServiceRow /\ NextVersion(z).number = z.number
         /\ NextVersion(z).version = z.version + 1
<1>1. NextVersion(z).number = z.number
  BY DEF NextVersion, ServiceRow
<1>2. NextVersion(z).version = z.version + 1
  BY DEF NextVersion, ServiceRow
<1>3. z.version \in Nat \ {0}
  BY DEF ServiceRow
<1>4. z.version + 1 \in Nat \ {0}
  BY <1>3
<1>5. \A v \in Nat \ {0} : [z EXCEPT !.version = v] \in ServiceRow
  BY DEF ServiceRow
<1>6. NextVersion(z) = [z EXCEPT !.version = z.version + 1]
  BY Zenon DEF NextVersion
<1> QED
  BY <1>1, <1>2, <1>4, <1>5, <1>6

LEMMA DeviceVersioned ==
  ASSUME NEW z \in DeviceRow
  PROVE  /\ NextVersion(z) \in DeviceRow /\ NextVersion(z).code = z.code
         /\ NextVersion(z).service = z.service
         /\ NextVersion(z).version = z.version + 1
<1>1. NextVersion(z).code = z.code /\ NextVersion(z).service = z.service
  BY DEF NextVersion, DeviceRow
<1>2. NextVersion(z).version = z.version + 1
  BY DEF NextVersion, DeviceRow
<1>3. z.version \in Nat \ {0}
  BY DEF DeviceRow
<1>4. z.version + 1 \in Nat \ {0}
  BY <1>3
<1>5. \A v \in Nat \ {0} : [z EXCEPT !.version = v] \in DeviceRow
  BY DEF DeviceRow
<1>6. NextVersion(z) = [z EXCEPT !.version = z.version + 1]
  BY Zenon DEF NextVersion
<1> QED
  BY <1>1, <1>2, <1>4, <1>5, <1>6

LEMMA LedgerRests ==
  ASSUME Keyed(services, devices), UNCHANGED ledger
  PROVE  Keyed(services', devices') /\ Grows
<1>1. services' = services /\ devices' = devices
  BY DEF ledger
<1> QED
  BY <1>1 DEF Grows, Kept

LEMMA FormsKeepKeys ==
  ASSUME Keyed(services, devices), CreateService \/ EditService \/ EditDevice
  PROVE  Keyed(services', devices') /\ Grows
<1>1. /\ services \in Seq(ServiceRow) /\ NumbersUnique(services)
      /\ devices \in Seq(DeviceRow) /\ CodesUnique(devices)
      /\ \A d \in Ids(devices) : devices[d].service \in Ids(services)
  BY DEF Keyed
<1>2. /\ \A s \in Ids(services) : services[s] \in ServiceRow
      /\ \A d \in Ids(devices) : devices[d] \in DeviceRow
  BY <1>1, RowsOfTable
<1>3. /\ \A s \in Ids(services) : services[s].version \in Nat
      /\ \A d \in Ids(devices) : devices[d].version \in Nat
  BY <1>2 DEF ServiceRow, DeviceRow
<1>4. CASE CreateService
  <2>1. PICK n \in Numbers, p \in Entered :
           /\ Numbered(services, n) = {}
           /\ services' = Append(services, [number |-> n, manager |-> p, version |-> 1])
    BY <1>4 DEF CreateService
  <2> DEFINE new == [number |-> n, manager |-> p, version |-> 1]
  <2>2. new \in ServiceRow /\ new.number = n
    BY TextsAre DEF ServiceRow
  <2> HIDE DEF new
  <2>3. services' = Append(services, new) /\ devices' = devices
    BY <1>4, <2>1 DEF new, CreateService
  <2>4. /\ services' \in Seq(ServiceRow) /\ Len(services') = Len(services) + 1
        /\ \A s \in 1..Len(services) : services'[s] = services[s]
        /\ services'[Len(services) + 1] = new /\ Len(services) \in Nat
    BY <1>1, <2>2, <2>3, AppendProperties, LenProperties
  <2>5. /\ Ids(services) \subseteq Ids(services')
        /\ \A s \in Ids(services) : services'[s] = services[s]
        /\ \A s \in Ids(services') : s \in Ids(services) \/ s = Len(services) + 1
    BY <2>4 DEF Ids
  <2>6. ASSUME NEW s \in Ids(services)
        PROVE  services[s].number # n
    BY <2>1 DEF Numbered
  <2>7. NumbersUnique(services')
    BY <1>1, <2>2, <2>4, <2>5, <2>6 DEF NumbersUnique
  <2> QED
    BY <1>1, <2>3, <2>4, <2>5, <2>7 DEF Keyed, Grows, Kept
<1>5. CASE EditService
  <2>1. PICK s \in Ids(services) :
           \E row \in {[services[s] EXCEPT !.number = n] :
                          n \in {x \in Numbers : Numbered(services, x) = {}}}
                  \cup {[services[s] EXCEPT !.manager = p] :
                          p \in Entered \ {services[s].manager}} :
              services' = [services EXCEPT ![s] = NextVersion(row)]
    BY <1>5 DEF EditService, NextVersion
  <2>2. PICK row :
           /\ row \in {[services[s] EXCEPT !.number = n] :
                          n \in {x \in Numbers : Numbered(services, x) = {}}}
                  \cup {[services[s] EXCEPT !.manager = p] :
                          p \in Entered \ {services[s].manager}}
           /\ services' = [services EXCEPT ![s] = NextVersion(row)]
    BY <2>1
  <2>3. services[s] \in ServiceRow
    BY <1>2
  <2>4. /\ row \in ServiceRow /\ row.version = services[s].version
        /\ row.number = services[s].number \/ Numbered(services, row.number) = {}
    <3>1. CASE \E n \in {x \in Numbers : Numbered(services, x) = {}} :
                  row = [services[s] EXCEPT !.number = n]
      BY <2>3, <3>1 DEF ServiceRow
    <3>2. CASE \E p \in Entered : row = [services[s] EXCEPT !.manager = p]
      BY <2>3, <3>2, TextsAre DEF ServiceRow
    <3> QED
      BY <2>2, <3>1, <3>2
  <2>5. /\ NextVersion(row) \in ServiceRow /\ NextVersion(row).number = row.number
        /\ NextVersion(row).version = services[s].version + 1
    BY <2>4, ServiceVersioned
  <2>6. /\ services' \in Seq(ServiceRow) /\ Ids(services') = Ids(services)
        /\ services'[s] = NextVersion(row)
        /\ \A t \in Ids(services) : t # s => services'[t] = services[t]
    <3>1. services' = Put(services, s, NextVersion(row))
      BY <2>2, Zenon DEF Put
    <3>2. NextVersion(row) \in ServiceRow /\ services \in Seq(ServiceRow)
      BY <1>1, <2>5
    <3>3. /\ Put(services, s, NextVersion(row)) \in Seq(ServiceRow)
          /\ Ids(Put(services, s, NextVersion(row))) = Ids(services)
          /\ Put(services, s, NextVersion(row))[s] = NextVersion(row)
          /\ \A j \in Ids(services) : j # s => Put(services, s, NextVersion(row))[j] = services[j]
      BY <3>2, RowReplaced
    <3> QED
      BY <3>1, <3>3, Zenon
  <2>7. \A t \in Ids(services) : t # s => services[t].number # row.number
    BY <1>1, <2>4 DEF NumbersUnique, Numbered
  <2>8. NumbersUnique(services')
    BY <1>1, <2>5, <2>6, <2>7 DEF NumbersUnique
  <2>9. devices' = devices
    BY <1>5 DEF EditService
  <2>10. \A t \in Ids(services) : Kept(services[t], services'[t])
    BY <1>3, <2>5, <2>6 DEF Kept
  <2> QED
    BY <1>1, <2>6, <2>8, <2>9, <2>10 DEF Keyed, Grows, Kept
<1>6. CASE EditDevice
  <2>1. PICK d \in Ids(devices) :
           \E row \in {[devices[d] EXCEPT !.code = c] :
                          c \in {x \in Codes : Coded(devices, x) = {}}}
                  \cup {[devices[d] EXCEPT !.service = s] :
                          s \in Ids(services) \ {devices[d].service}}
                  \cup {[devices[d] EXCEPT !.keeper = p] :
                          p \in Entered \ {devices[d].keeper}} :
              devices' = [devices EXCEPT ![d] = NextVersion(row)]
    BY <1>6 DEF EditDevice, NextVersion
  <2>2. PICK row :
           /\ row \in {[devices[d] EXCEPT !.code = c] :
                          c \in {x \in Codes : Coded(devices, x) = {}}}
                  \cup {[devices[d] EXCEPT !.service = s] :
                          s \in Ids(services) \ {devices[d].service}}
                  \cup {[devices[d] EXCEPT !.keeper = p] :
                          p \in Entered \ {devices[d].keeper}}
           /\ devices' = [devices EXCEPT ![d] = NextVersion(row)]
    BY <2>1
  <2>3. devices[d] \in DeviceRow /\ devices[d].service \in Ids(services)
          /\ Ids(services) \subseteq Nat \ {0}
    BY <1>1, <1>2, RowsOfTable
  <2>4. /\ row \in DeviceRow /\ row.version = devices[d].version
        /\ row.code = devices[d].code \/ Coded(devices, row.code) = {}
        /\ row.service \in Ids(services)
    <3>1. CASE \E c \in {x \in Codes : Coded(devices, x) = {}} :
                  row = [devices[d] EXCEPT !.code = c]
      BY <2>3, <3>1 DEF DeviceRow
    <3>2. CASE \E s \in Ids(services) : row = [devices[d] EXCEPT !.service = s]
      BY <2>3, <3>2 DEF DeviceRow
    <3>3. CASE \E p \in Entered : row = [devices[d] EXCEPT !.keeper = p]
      BY <2>3, <3>3, TextsAre DEF DeviceRow
    <3> QED
      BY <2>2, <3>1, <3>2, <3>3
  <2>5. /\ NextVersion(row) \in DeviceRow /\ NextVersion(row).code = row.code
        /\ NextVersion(row).service = row.service
        /\ NextVersion(row).version = devices[d].version + 1
    BY <2>4, DeviceVersioned
  <2>6. /\ devices' \in Seq(DeviceRow) /\ Ids(devices') = Ids(devices)
        /\ devices'[d] = NextVersion(row)
        /\ \A e \in Ids(devices) : e # d => devices'[e] = devices[e]
    <3>1. devices' = Put(devices, d, NextVersion(row))
      BY <2>2, Zenon DEF Put
    <3>2. NextVersion(row) \in DeviceRow /\ devices \in Seq(DeviceRow)
      BY <1>1, <2>5
    <3>3. /\ Put(devices, d, NextVersion(row)) \in Seq(DeviceRow)
          /\ Ids(Put(devices, d, NextVersion(row))) = Ids(devices)
          /\ Put(devices, d, NextVersion(row))[d] = NextVersion(row)
          /\ \A j \in Ids(devices) : j # d => Put(devices, d, NextVersion(row))[j] = devices[j]
      BY <3>2, RowReplaced
    <3> QED
      BY <3>1, <3>3, Zenon
  <2>7. \A e \in Ids(devices) : e # d => devices[e].code # row.code
    BY <1>1, <2>4 DEF CodesUnique, Coded
  <2>8. CodesUnique(devices')
    BY <1>1, <2>5, <2>6, <2>7 DEF CodesUnique
  <2>9. services' = services
    BY <1>6 DEF EditDevice
  <2>10. \A e \in Ids(devices) : Kept(devices[e], devices'[e])
    BY <1>3, <2>5, <2>6 DEF Kept
  <2>11. \A e \in Ids(devices') : devices'[e].service \in Ids(services')
    BY <1>1, <2>4, <2>5, <2>6, <2>9
  <2> QED
    BY <1>1, <2>6, <2>8, <2>9, <2>10, <2>11 DEF Keyed, Grows, Kept
<1> QED
  BY <1>4, <1>5, <1>6
-----------------------------------------------------------------------------
(* Every step keeps the invariant. *)

LEMMA AppliesKeepKeys ==
  ASSUME Keyed(services, devices), ItemsOK, NEW d \in Domain, Apply(d)
  PROVE  Keyed(services', devices') /\ Grows
<1>1. /\ services \in Seq(ServiceRow) /\ NumbersUnique(services)
      /\ devices \in Seq(DeviceRow) /\ CodesUnique(devices)
      /\ \A e \in Ids(devices) : devices[e].service \in Ids(services)
  BY DEF Keyed
<1>2. /\ \A s \in Ids(services) : services[s].version \in Nat
      /\ \A e \in Ids(devices) : devices[e].version \in Nat
  <2>1. /\ \A s \in Ids(services) : services[s] \in ServiceRow
        /\ \A e \in Ids(devices) : devices[e] \in DeviceRow
    BY <1>1, RowsOfTable
  <2> QED
    BY <2>1 DEF ServiceRow, DeviceRow
<1>3. CASE d = "business"
  <2> DEFINE items == sets["business"].items
  <2>1. /\ items \in SUBSET BusinessItem /\ IsFiniteSet(items)
        /\ Distinct(items) /\ NumbersDistinct(items)
    BY DEF ItemsOK
  <2>2. /\ \A x \in items : BusinessApplies(x)
        /\ ApplyBusiness(items) /\ devices' = devices
    BY <1>3 DEF Apply, Applicable
  <2> HIDE DEF items
  <2>3. /\ services' \in Seq(ServiceRow) /\ NumbersUnique(services')
        /\ Ids(services) \subseteq Ids(services')
        /\ \A s \in Ids(services) :
              (\A x \in items : x.id # s) => services'[s] = services[s]
        /\ \A s \in Ids(services) : \A x \in items : x.id = s =>
              services'[s].version = services[s].version + 1
    BY <2>1, <2>2, BusinessWritten
  <2>4. ASSUME NEW s \in Ids(services)
        PROVE  Kept(services[s], services'[s])
    BY <1>2, <2>3 DEF Kept
  <2> QED
    BY <1>1, <2>2, <2>3, <2>4 DEF Keyed, Grows, Kept
<1>4. CASE d = "network"
  <2> DEFINE items == sets["network"].items
  <2>1. /\ items \in SUBSET DeviceItem /\ IsFiniteSet(items)
        /\ Distinct(items) /\ CodesDistinct(items)
    BY DEF ItemsOK
  <2>2. /\ \A x \in items : DeviceApplies(x)
        /\ ApplyDevices(items) /\ services' = services
    BY <1>4 DEF Apply, Applicable
  <2> HIDE DEF items
  <2>3. /\ devices' \in Seq(DeviceRow) /\ CodesUnique(devices')
        /\ \A e \in Ids(devices') : devices'[e].service \in Ids(services)
        /\ Ids(devices) \subseteq Ids(devices')
        /\ \A e \in Ids(devices) :
              (\A x \in items : x.id # e) => devices'[e] = devices[e]
        /\ \A e \in Ids(devices) : \A x \in items : x.id = e =>
              devices'[e].version = devices[e].version + 1
    BY <2>1, <2>2, NetworkWritten
  <2>4. ASSUME NEW e \in Ids(devices)
        PROVE  Kept(devices[e], devices'[e])
    BY <1>2, <2>3 DEF Kept
  <2> QED
    BY <1>1, <2>2, <2>3, <2>4 DEF Keyed, Grows, Kept
<1> QED
  BY <1>3, <1>4, DomainIs

LEMMA EarlierStays ==
  ASSUME Keyed(services, devices), Keyed(services', devices'), Grows,
         NEW from \in Snapshots, Earlier(from, services, devices)
  PROVE  Earlier(from, services', devices')
<1> SUFFICES ASSUME from # <<>>
             PROVE  /\ \A s \in Ids(from[1]) :
                          s \in Ids(services') /\ Kept(from[1][s], services'[s])
                    /\ \A d \in Ids(from[2]) :
                          d \in Ids(devices') /\ Kept(from[2][d], devices'[d])
  BY DEF Earlier
<1>1. from[1] \in Seq(ServiceRow) /\ from[2] \in Seq(DeviceRow)
  BY SnapshotFacts
<1>2. ASSUME NEW s \in Ids(from[1])
      PROVE  s \in Ids(services') /\ Kept(from[1][s], services'[s])
  <2>1. s \in Ids(services) /\ Kept(from[1][s], services[s])
    BY DEF Earlier
  <2>2. s \in Ids(services') /\ Kept(services[s], services'[s])
    BY <2>1 DEF Grows
  <2>3. from[1][s] \in ServiceRow /\ services[s] \in ServiceRow /\ services'[s] \in ServiceRow
    BY <1>1, <2>1, <2>2, RowsOfTable DEF Keyed
  <2>4. /\ from[1][s].version \in Nat /\ services[s].version \in Nat
        /\ services'[s].version \in Nat
    BY <2>3 DEF ServiceRow
  <2> QED
    BY <2>1, <2>2, <2>4 DEF Kept
<1>3. ASSUME NEW d \in Ids(from[2])
      PROVE  d \in Ids(devices') /\ Kept(from[2][d], devices'[d])
  <2>1. d \in Ids(devices) /\ Kept(from[2][d], devices[d])
    BY DEF Earlier
  <2>2. d \in Ids(devices') /\ Kept(devices[d], devices'[d])
    BY <2>1 DEF Grows
  <2>3. from[2][d] \in DeviceRow /\ devices[d] \in DeviceRow /\ devices'[d] \in DeviceRow
    BY <1>1, <2>1, <2>2, RowsOfTable DEF Keyed
  <2>4. /\ from[2][d].version \in Nat /\ devices[d].version \in Nat
        /\ devices'[d].version \in Nat
    BY <2>3 DEF DeviceRow
  <2> QED
    BY <2>1, <2>2, <2>4 DEF Kept
<1> QED
  BY <1>2, <1>3

LEMMA EarlierNow ==
  ASSUME Keyed(services, devices)
  PROVE  ledger \in Snapshots /\ Earlier(ledger, services, devices)
<1>1. ledger \in Snapshots /\ ledger[1] = services /\ ledger[2] = devices
  BY SnapshotOfTables DEF Keyed, ledger
<1> QED
  BY <1>1 DEF Earlier, Kept

(* What leaves the batch's rows and the items of the sets alone. *)
LEMMA FrameKeeps ==
  ASSUME IInv, Keyed(services', devices'), Grows,
         exported' \in {exported, ledger},
         batch' \in [status : BatchStatus, rows : Seq(Row), staged : Seq(StagedRow),
                     from : Snapshots],
         batch'.rows = batch.rows, batch'.staged = batch.staged, batch'.from = batch.from,
         sets' \in [Domain -> [status : SetStatus, items : SUBSET Item]],
         \A d \in Domain : sets'[d].items = sets[d].items,
         left' \in BOOLEAN, fresh' \in BOOLEAN
  PROVE  IInv'
<1>1. /\ Keyed(services, devices) /\ exported \in Snapshots /\ batch.from \in Snapshots
      /\ Earlier(exported, services, devices) /\ Earlier(batch.from, services, devices)
  BY DEF IInv, Types
<1>2. ledger \in Snapshots /\ Earlier(ledger, services, devices)
  BY <1>1, EarlierNow
<1>3. exported' \in Snapshots /\ Earlier(exported', services', devices')
  BY <1>1, <1>2, EarlierStays
<1>4. Earlier(batch'.from, services', devices')
  BY <1>1, EarlierStays
<1>5. Types'
  BY <1>3 DEF Types
<1>6. RowsOK'
  BY DEF IInv, RowsOK
<1>7. ItemsOK'
  BY DomainIs DEF IInv, ItemsOK
<1> QED
  BY <1>3, <1>4, <1>5, <1>6, <1>7 DEF IInv
LEMMA BeginKeeps ==
  ASSUME IInv, NEW sheet, NEW from, from \in Snapshots, Sheet(sheet), Copied(sheet, from),
         Earlier(from, services, devices), Begin(sheet, from)
  PROVE  IInv'
<1>1. /\ Keyed(services, devices) /\ exported \in Snapshots
      /\ Earlier(exported, services, devices)
  BY DEF IInv, Types
<1>2. /\ services' = services /\ devices' = devices
      /\ batch' = [status |-> "ready", rows |-> sheet, staged |-> Validate(sheet), from |-> from]
      /\ sets' = NoSets /\ left' = FALSE /\ fresh' = TRUE
  BY DEF Begin, ledger
<1>3. /\ Validate(sheet) \in Seq(StagedRow) /\ Matched(Validate(sheet))
      /\ Traced(Validate(sheet), from)
  BY <1>1, ValidateIsMatched, ValidateIsTraced
<1>4. /\ batch'.rows = sheet /\ batch'.staged = Validate(sheet) /\ batch'.from = from
      /\ batch' \in [status : BatchStatus, rows : Seq(Row), staged : Seq(StagedRow),
                     from : Snapshots]
  <2>1. "ready" \in BatchStatus /\ sheet \in Seq(Row)
    BY DEF BatchStatus, Sheet
  <2> DEFINE v == Validate(sheet)
  <2>2. v \in Seq(StagedRow)
    BY <1>3
  <2>3. batch' = [status |-> "ready", rows |-> sheet, staged |-> v, from |-> from]
    BY <1>2
  <2> HIDE DEF v
  <2>4. /\ batch'.rows = sheet /\ batch'.staged = v /\ batch'.from = from
        /\ batch' \in [status : BatchStatus, rows : Seq(Row), staged : Seq(StagedRow),
                       from : Snapshots]
    BY <2>1, <2>2, <2>3, Zenon
  <2> QED
    BY <2>4 DEF v
<1>5. /\ sets' \in [Domain -> [status : SetStatus, items : SUBSET Item]]
      /\ \A d \in Domain : sets'[d].items = {}
  BY <1>2 DEF NoSets, NoSet, SetStatus
<1>6. exported' \in Snapshots /\ Earlier(exported', services, devices)
  <2>1. exported' = <<>> \/ exported' = exported
    BY DEF Begin
  <2>2. <<>> \in Snapshots /\ Earlier(<<>>, services, devices)
    BY Zenon DEF Snapshots, Earlier
  <2> QED
    BY <1>1, <2>1, <2>2, Zenon
<1>7. Types'
  BY <1>1, <1>2, <1>4, <1>5, <1>6 DEF Types
<1>8. RowsOK'
  BY <1>3, <1>4 DEF RowsOK
<1>9. ItemsOK'
  BY <1>5, DomainIs, FS_EmptySet
     DEF ItemsOK, Distinct, NumbersDistinct, CodesDistinct, ItemsTraced
<1> QED
  BY <1>1, <1>2, <1>4, <1>6, <1>7, <1>8, <1>9 DEF IInv

LEMMA UploadKeeps ==
  ASSUME IInv, Upload
  PROVE  IInv'
<1>1. CASE \E sheet \in TypedSheets : Begin(sheet, <<>>)
  <2>1. PICK sheet \in TypedSheets : Begin(sheet, <<>>)
    BY <1>1
  <2>2. /\ sheet \in Seq(Row)
        /\ \A i \in DOMAIN sheet :
              /\ IsFiniteSet(sheet[i].codes)
              /\ sheet[i].sver = 0 /\ sheet[i].dver = 0
    BY LedgerAssumption
  <2>3. DOMAIN sheet = Ids(sheet)
    BY <2>2, RowsOfTable
  <2>4. Sheet(sheet) /\ Copied(sheet, <<>>)
    BY <2>2, <2>3 DEF Sheet, Copied
  <2>5. <<>> \in Snapshots /\ Earlier(<<>>, services, devices)
    BY Zenon DEF Snapshots, Earlier
  <2> QED
    BY <2>1, <2>4, <2>5, BeginKeeps
<1>2. CASE /\ exported # <<>>
           /\ \E sheet \in Altered(Export(exported[1], exported[2])) : Begin(sheet, exported)
  <2> DEFINE S == exported[1]
             D == exported[2]
  <2>1. PICK sheet \in Altered(Export(S, D)) : Begin(sheet, exported)
    BY <1>2
  <2>2. exported \in Snapshots /\ Earlier(exported, services, devices)
    BY DEF IInv, Types
  <2>3. S \in Seq(ServiceRow) /\ D \in Seq(DeviceRow)
    BY <1>2, <2>2, SnapshotFacts
  <2>4. Sheet(Export(S, D)) /\ Copied(Export(S, D), exported)
    <3> HIDE DEF S, D
    <3>1. Sheet(Export(S, D)) /\ Copied(Export(S, D), <<S, D>>)
      BY <2>3, ExportIsASheet, ExportIsCopied
    <3>2. /\ <<S, D>> # <<>> /\ <<S, D>>[1] = S /\ <<S, D>>[2] = D
      BY <2>3, SnapshotOfTables
    <3>3. Copied(Export(S, D), exported)
      BY <1>2, <3>1, <3>2 DEF Copied, S, D
    <3> QED
      BY <3>1, <3>3
  <2>5. Sheet(sheet) /\ Copied(sheet, exported)
    BY <2>4, AlteredIsCopied
  <2> QED
    BY <2>1, <2>2, <2>5, BeginKeeps
<1> QED
  BY <1>1, <1>2 DEF Upload

(* A corrected row keeps its technical columns or has none. *)
LEMMA CorrectedIsCopied ==
  ASSUME NEW rows, Sheet(rows), NEW from, Copied(rows, from), NEW i \in Ids(rows),
         NEW row,
         row \in {[rows[i] EXCEPT !.number = n] : n \in Numbers}
           \cup {[rows[i] EXCEPT !.codes = Parts[c]] : c \in Codes}
           \cup {[rows[i] EXCEPT !.sid = NoId, !.sver = 0, !.did = NoId, !.dver = 0]}
  PROVE  Sheet([rows EXCEPT ![i] = row]) /\ Copied([rows EXCEPT ![i] = row], from)
<1>1. rows \in Seq(Row) /\ rows[i] \in Row /\ IsFiniteSet(rows[i].codes)
  BY RowsOfTable DEF Sheet
<1>2. /\ row \in Row /\ IsFiniteSet(row.codes)
      /\ \/ /\ row.sid = rows[i].sid /\ row.sver = rows[i].sver
            /\ row.did = rows[i].did /\ row.dver = rows[i].dver
         \/ row.sver = 0 /\ row.dver = 0
  <2>1. CASE \E n \in Numbers : row = [rows[i] EXCEPT !.number = n]
    BY <1>1, <2>1 DEF Row
  <2>2. CASE \E c \in Codes : row = [rows[i] EXCEPT !.codes = Parts[c]]
    <3>1. PICK c \in Codes : row = [rows[i] EXCEPT !.codes = Parts[c]]
      BY <2>2
    <3>2. \A cs \in SUBSET Codes :
             /\ [rows[i] EXCEPT !.codes = cs] \in Row
             /\ [rows[i] EXCEPT !.codes = cs].codes = cs
             /\ [rows[i] EXCEPT !.codes = cs].sid = rows[i].sid
             /\ [rows[i] EXCEPT !.codes = cs].sver = rows[i].sver
             /\ [rows[i] EXCEPT !.codes = cs].did = rows[i].did
             /\ [rows[i] EXCEPT !.codes = cs].dver = rows[i].dver
      BY <1>1 DEF Row
    <3>3. Parts[c] \in SUBSET Codes /\ IsFiniteSet(Parts[c])
      BY PartsAre
    <3> QED
      BY <3>1, <3>2, <3>3
  <2>3. CASE row = [rows[i] EXCEPT !.sid = NoId, !.sver = 0, !.did = NoId, !.dver = 0]
    BY <1>1, <2>3 DEF Row, NoId
  <2> QED
    BY <2>1, <2>2, <2>3
<1>3. /\ Put(rows, i, row) \in Seq(Row) /\ Ids(Put(rows, i, row)) = Ids(rows)
      /\ Put(rows, i, row)[i] = row
      /\ \A j \in Ids(rows) : j # i => Put(rows, i, row)[j] = rows[j]
  BY <1>1, <1>2, RowReplaced
<1>4. Sheet(Put(rows, i, row))
  BY <1>2, <1>3 DEF Sheet
<1>5. Copied(Put(rows, i, row), from)
  <2>1. ASSUME NEW j \in Ids(rows)
        PROVE  /\ Put(rows, i, row)[j].sver # 0 =>
                    /\ from # <<>> /\ Put(rows, i, row)[j].sid # NoId
                    /\ Put(rows, i, row)[j].sid \in Ids(from[1])
                    /\ Put(rows, i, row)[j].sver = from[1][Put(rows, i, row)[j].sid].version
               /\ Put(rows, i, row)[j].dver # 0 =>
                    /\ from # <<>> /\ Put(rows, i, row)[j].did # NoId
                    /\ Put(rows, i, row)[j].did \in Ids(from[2])
                    /\ Put(rows, i, row)[j].dver = from[2][Put(rows, i, row)[j].did].version
    <3>1. CASE j = i
      BY <1>2, <1>3, <3>1 DEF Copied
    <3>2. CASE j # i
      BY <1>3, <3>2 DEF Copied
    <3> QED
      BY <3>1, <3>2
  <2> QED
    BY <1>3, <2>1 DEF Copied
<1> QED
  BY <1>4, <1>5 DEF Put

LEMMA CorrectKeeps ==
  ASSUME IInv, Correct
  PROVE  IInv'
<1>1. /\ Keyed(services, devices) /\ exported \in Snapshots /\ RowsOK /\ ItemsOK
      /\ batch \in [status : BatchStatus, rows : Seq(Row), staged : Seq(StagedRow),
                    from : Snapshots]
      /\ Earlier(exported, services, devices) /\ Earlier(batch.from, services, devices)
  BY DEF IInv, Types
<1>2. PICK i \in Ids(batch.rows) :
        \E row \in {[batch.rows[i] EXCEPT !.number = n] : n \in Numbers}
              \cup {[batch.rows[i] EXCEPT !.codes = Parts[c]] : c \in Codes}
              \cup {[batch.rows[i] EXCEPT !.sid = NoId, !.sver = 0,
                                          !.did = NoId, !.dver = 0]} :
          batch' = [batch EXCEPT !.rows = [batch.rows EXCEPT ![i] = row],
                                 !.staged = Validate([batch.rows EXCEPT ![i] = row])]
  BY DEF Correct
<1>3. PICK row \in {[batch.rows[i] EXCEPT !.number = n] : n \in Numbers}
                \cup {[batch.rows[i] EXCEPT !.codes = Parts[c]] : c \in Codes}
                \cup {[batch.rows[i] EXCEPT !.sid = NoId, !.sver = 0,
                                            !.did = NoId, !.dver = 0]} :
        batch' = [batch EXCEPT !.rows = [batch.rows EXCEPT ![i] = row],
                               !.staged = Validate([batch.rows EXCEPT ![i] = row])]
  BY <1>2
<1> DEFINE sheet == [batch.rows EXCEPT ![i] = row]
           v == Validate(sheet)
<1>4. Sheet(sheet) /\ Copied(sheet, batch.from)
  BY <1>1, <1>3, CorrectedIsCopied DEF RowsOK
<1> HIDE DEF sheet
<1>5. v \in Seq(StagedRow) /\ Matched(v) /\ Traced(v, batch.from)
  BY <1>1, <1>4, ValidateIsMatched, ValidateIsTraced
<1> HIDE DEF v
<1>6. batch' = [batch EXCEPT !.rows = sheet, !.staged = v]
  BY <1>3 DEF sheet, v
<1>7. /\ batch'.rows = sheet /\ batch'.staged = v /\ batch'.from = batch.from
      /\ batch' \in [status : BatchStatus, rows : Seq(Row), staged : Seq(StagedRow),
                     from : Snapshots]
  <2>1. sheet \in Seq(Row)
    BY <1>4 DEF Sheet
  <2> QED
    BY <1>1, <1>5, <1>6, <2>1
<1>8. /\ services' = services /\ devices' = devices /\ exported' = exported
      /\ sets' = sets /\ left' = left
  BY DEF Correct, ledger
<1>9. fresh' \in BOOLEAN
  BY DEF Correct, IInv, Types
<1>10. Types'
  BY <1>1, <1>7, <1>8, <1>9 DEF Types, IInv
<1>11. RowsOK'
  BY <1>4, <1>5, <1>7 DEF RowsOK
<1>12. ItemsOK'
  BY <1>1, <1>7, <1>8 DEF ItemsOK
<1> QED
  BY <1>1, <1>7, <1>8, <1>10, <1>11, <1>12 DEF IInv

(* The items of a clean sheet name the versions it was made from. *)
LEMMA ItemsAreTraced ==
  ASSUME NEW staged \in Seq(StagedRow), Matched(staged), Clean(staged),
         NEW from, Traced(staged, from)
  PROVE  /\ ItemsTraced(BusinessItems(staged), from, 1)
         /\ ItemsTraced(DeviceItems(staged), from, 2)
<1>1. ASSUME NEW x \in BusinessItems(staged), x.id # NoId, x.from # 0
      PROVE  from # <<>> /\ x.id \in Ids(from[1]) /\ x.base = from[1][x.id].version
  <2>1. PICK i \in Ids(staged) : x = BusinessOf(staged[i])
    BY BusinessItemsFrom
  <2>2. x.id = staged[i].id /\ x.from = staged[i].sver /\ x.base = staged[i].base
    BY <2>1 DEF BusinessOf
  <2> QED
    BY <1>1, <2>2 DEF Traced, Clean
<1>2. ASSUME NEW x \in DeviceItems(staged), x.id # NoId, x.from # 0
      PROVE  from # <<>> /\ x.id \in Ids(from[2]) /\ x.base = from[2][x.id].version
  <2>1. PICK i \in Ids(staged) : \E data \in staged[i].devices : x = NetworkOf(staged[i], data)
    BY DeviceItemsFrom
  <2>2. PICK data \in staged[i].devices : x = NetworkOf(staged[i], data)
    BY <2>1
  <2>3. x.id = data.id /\ x.from = staged[i].dver /\ x.base = data.base
    BY <2>2 DEF NetworkOf
  <2> QED
    BY <1>2, <2>3 DEF Traced, Clean
<1> QED
  BY <1>1, <1>2 DEF ItemsTraced

LEMMA SubmitKeeps ==
  ASSUME IInv, Submit
  PROVE  IInv'
<1>1. /\ Keyed(services, devices) /\ exported \in Snapshots /\ RowsOK
      /\ batch \in [status : BatchStatus, rows : Seq(Row), staged : Seq(StagedRow),
                    from : Snapshots]
      /\ Earlier(exported, services, devices) /\ Earlier(batch.from, services, devices)
  BY DEF IInv, Types
<1> DEFINE staged == batch.staged
<1>2. /\ staged \in Seq(StagedRow) /\ Matched(staged) /\ Clean(staged)
      /\ Traced(staged, batch.from)
  BY <1>1 DEF RowsOK, Submit
<1>3. /\ services' = services /\ devices' = devices /\ exported' = exported
      /\ batch' = [batch EXCEPT !.status = "reviewing"]
      /\ sets' = [d \in Domain |->
            IF ItemsOf(staged)[d] = {} THEN NoSet
            ELSE [status |-> "submitted", items |-> ItemsOf(staged)[d]]]
  BY DEF Submit, ledger
<1>4. left' \in BOOLEAN /\ fresh' \in BOOLEAN
  BY DEF Submit
<1>5. /\ batch'.rows = batch.rows /\ batch'.staged = staged /\ batch'.from = batch.from
      /\ batch' \in [status : BatchStatus, rows : Seq(Row), staged : Seq(StagedRow),
                     from : Snapshots]
  BY <1>1, <1>3 DEF BatchStatus
<1> HIDE DEF staged
<1>6. /\ ItemsOf(staged)["business"] = BusinessItems(staged)
      /\ ItemsOf(staged)["network"] = DeviceItems(staged)
  BY DEF ItemsOf, Domain
<1>7. /\ BusinessItems(staged) \subseteq BusinessItem /\ IsFiniteSet(BusinessItems(staged))
      /\ Distinct(BusinessItems(staged)) /\ NumbersDistinct(BusinessItems(staged))
      /\ ItemsTraced(BusinessItems(staged), batch.from, 1)
  BY <1>2, ItemsAreDistinct, BusinessItemsFrom, ItemsAreTraced DEF Distinct, NumbersDistinct
<1>8. /\ DeviceItems(staged) \subseteq DeviceItem /\ IsFiniteSet(DeviceItems(staged))
      /\ Distinct(DeviceItems(staged)) /\ CodesDistinct(DeviceItems(staged))
      /\ ItemsTraced(DeviceItems(staged), batch.from, 2)
  BY <1>2, ItemsAreDistinct, DeviceItemsFrom, ItemsAreTraced DEF Distinct, CodesDistinct
<1>9. \A d \in Domain : ItemsOf(staged)[d] \subseteq Item
  BY <1>6, <1>7, <1>8, DomainIs DEF Item
<1>10. ASSUME NEW d \in Domain
       PROVE  /\ sets'[d] \in [status : SetStatus, items : SUBSET Item]
              /\ sets'[d].items = ItemsOf(staged)[d]
  <2> DEFINE its == ItemsOf(staged)[d]
  <2>1. sets'[d] = IF its = {} THEN NoSet ELSE [status |-> "submitted", items |-> its]
    BY <1>3
  <2>2. its \in SUBSET Item
    BY <1>9
  <2> HIDE DEF its
  <2>3. /\ sets'[d] \in [status : SetStatus, items : SUBSET Item]
        /\ sets'[d].items = its
    BY <2>1, <2>2 DEF NoSet, SetStatus
  <2> QED
    BY <2>3 DEF its
<1>11. sets' \in [Domain -> [status : SetStatus, items : SUBSET Item]]
  <2>1. sets' = [d \in Domain |-> sets'[d]]
    BY <1>3
  <2> QED
    BY <1>10, <2>1
<1>12. Types'
  BY <1>1, <1>3, <1>4, <1>5, <1>11 DEF Types
<1>13. RowsOK'
  BY <1>1, <1>5 DEF RowsOK, staged
<1>14. ItemsOK'
  BY <1>5, <1>6, <1>7, <1>8, <1>10, DomainIs DEF ItemsOK
<1> QED
  BY <1>1, <1>3, <1>5, <1>12, <1>13, <1>14 DEF IInv

-----------------------------------------------------------------------------
(* Every step keeps the invariant. *)

LEMMA ExportKeeps ==
  ASSUME IInv, ExportLedger
  PROVE  IInv'
<1>1. Keyed(services, devices)
  BY DEF IInv, Types
<1>2. /\ UNCHANGED ledger /\ batch' = batch /\ sets' = sets
      /\ left' = left /\ fresh' = fresh /\ exported' = ledger
  BY DEF ExportLedger
<1>3. Keyed(services', devices') /\ Grows
  BY <1>1, <1>2, LedgerRests
<1>4. /\ batch \in [status : BatchStatus, rows : Seq(Row), staged : Seq(StagedRow),
                    from : Snapshots]
      /\ sets \in [Domain -> [status : SetStatus, items : SUBSET Item]]
      /\ left \in BOOLEAN /\ fresh \in BOOLEAN
  BY DEF IInv, Types
<1> QED
  BY <1>2, <1>3, <1>4, FrameKeeps

LEMMA StutterKeeps ==
  ASSUME IInv, UNCHANGED vars
  PROVE  IInv'
<1>1. Keyed(services, devices)
  BY DEF IInv, Types
<1>2. /\ UNCHANGED ledger /\ batch' = batch /\ sets' = sets
      /\ left' = left /\ fresh' = fresh /\ exported' = exported
  BY DEF vars
<1>3. Keyed(services', devices') /\ Grows
  BY <1>1, <1>2, LedgerRests
<1>4. /\ batch \in [status : BatchStatus, rows : Seq(Row), staged : Seq(StagedRow),
                    from : Snapshots]
      /\ sets \in [Domain -> [status : SetStatus, items : SUBSET Item]]
      /\ left \in BOOLEAN /\ fresh \in BOOLEAN
  BY DEF IInv, Types
<1> QED
  BY <1>2, <1>3, <1>4, FrameKeeps

(* A set that only changes its status. *)
Restatused(s, d, status) == [s EXCEPT ![d].status = status]

LEMMA SetRestatused ==
  ASSUME NEW s \in [Domain -> [status : SetStatus, items : SUBSET Item]],
         NEW d \in Domain, NEW status \in SetStatus
  PROVE  /\ Restatused(s, d, status) \in [Domain -> [status : SetStatus, items : SUBSET Item]]
         /\ \A o \in Domain : Restatused(s, d, status)[o].items = s[o].items
         /\ Restatused(s, d, status)[d].status = status
         /\ \A o \in Domain \ {d} : Restatused(s, d, status)[o] = s[o]
<1>1. s[d] \in [status : SetStatus, items : SUBSET Item]
  OBVIOUS
<1>2. \A o \in Domain : Restatused(s, d, status)[o] =
         IF o = d THEN [s[d] EXCEPT !.status = status] ELSE s[o]
  BY DEF Restatused
<1>3. /\ [s[d] EXCEPT !.status = status] \in [status : SetStatus, items : SUBSET Item]
      /\ [s[d] EXCEPT !.status = status].items = s[d].items
      /\ [s[d] EXCEPT !.status = status].status = status
  BY <1>1
<1>4. Restatused(s, d, status) = [o \in Domain |-> Restatused(s, d, status)[o]]
  BY DEF Restatused
<1>5. \A o \in Domain : Restatused(s, d, status)[o] \in [status : SetStatus, items : SUBSET Item]
  BY <1>2, <1>3
<1>6. Restatused(s, d, status) \in [Domain -> [status : SetStatus, items : SUBSET Item]]
  BY <1>4, <1>5
<1> QED
  BY <1>2, <1>3, <1>6

LEMMA DecideKeeps ==
  ASSUME IInv, NEW d \in Domain, Decide(d)
  PROVE  IInv'
<1>1. /\ Keyed(services, devices)
      /\ batch \in [status : BatchStatus, rows : Seq(Row), staged : Seq(StagedRow),
                    from : Snapshots]
      /\ sets \in [Domain -> [status : SetStatus, items : SUBSET Item]]
      /\ left \in BOOLEAN /\ fresh \in BOOLEAN
  BY DEF IInv, Types
<1>2. PICK decision \in {"approved", "returned", "rejected"} :
         /\ sets' = Restatused(sets, d, decision)
         /\ batch' = [batch EXCEPT !.status = BatchAfter(decision)]
  BY DEF Decide, Restatused
<1>3. /\ UNCHANGED ledger /\ exported' = exported /\ left' = left /\ fresh' = fresh
  BY DEF Decide
<1>4. Keyed(services', devices') /\ Grows
  BY <1>1, <1>3, LedgerRests
<1>5. decision \in SetStatus /\ BatchAfter(decision) \in BatchStatus
  BY DEF SetStatus, BatchStatus, BatchAfter
<1>6. /\ sets' \in [Domain -> [status : SetStatus, items : SUBSET Item]]
      /\ \A o \in Domain : sets'[o].items = sets[o].items
  BY <1>1, <1>2, <1>5, SetRestatused
<1>7. /\ batch' \in [status : BatchStatus, rows : Seq(Row), staged : Seq(StagedRow),
                     from : Snapshots]
      /\ batch'.rows = batch.rows /\ batch'.staged = batch.staged /\ batch'.from = batch.from
  BY <1>1, <1>2, <1>5
<1> QED
  BY <1>1, <1>3, <1>4, <1>6, <1>7, FrameKeeps

LEMMA ApplyKeeps ==
  ASSUME IInv, NEW d \in Domain, Apply(d)
  PROVE  IInv'
<1>1. /\ Keyed(services, devices) /\ ItemsOK
      /\ batch \in [status : BatchStatus, rows : Seq(Row), staged : Seq(StagedRow),
                    from : Snapshots]
      /\ sets \in [Domain -> [status : SetStatus, items : SUBSET Item]]
      /\ left \in BOOLEAN /\ fresh \in BOOLEAN
  BY DEF IInv, Types
<1>2. /\ sets' = Restatused(sets, d, "applied")
      /\ batch' = [batch EXCEPT !.status = "applied"] \/ batch' = batch
      /\ exported' = exported /\ left' = left /\ fresh' = fresh
  BY DEF Apply, Restatused
<1>3. Keyed(services', devices') /\ Grows
  BY <1>1, AppliesKeepKeys
<1>4. /\ sets' \in [Domain -> [status : SetStatus, items : SUBSET Item]]
      /\ \A o \in Domain : sets'[o].items = sets[o].items
  <2>1. "applied" \in SetStatus
    BY DEF SetStatus
  <2> QED
    BY <1>1, <1>2, <2>1, SetRestatused
<1>5. /\ batch' \in [status : BatchStatus, rows : Seq(Row), staged : Seq(StagedRow),
                     from : Snapshots]
      /\ batch'.rows = batch.rows /\ batch'.staged = batch.staged /\ batch'.from = batch.from
  BY <1>1, <1>2 DEF BatchStatus
<1> QED
  BY <1>1, <1>2, <1>3, <1>4, <1>5, FrameKeeps

LEMMA FormsKeep ==
  ASSUME IInv, CreateService \/ EditService \/ EditDevice
  PROVE  IInv'
<1>1. /\ Keyed(services, devices)
      /\ batch \in [status : BatchStatus, rows : Seq(Row), staged : Seq(StagedRow),
                    from : Snapshots]
      /\ sets \in [Domain -> [status : SetStatus, items : SUBSET Item]]
      /\ left \in BOOLEAN
  BY DEF IInv, Types
<1>2. Keyed(services', devices') /\ Grows
  BY <1>1, FormsKeepKeys
<1>3. Edits
  BY DEF CreateService, EditService, EditDevice
<1>4. exported' = exported /\ batch' = batch /\ sets' = sets /\ left' = left /\ fresh' = FALSE
  BY <1>3 DEF Edits
<1> QED
  BY <1>1, <1>2, <1>4, FrameKeeps

LEMMA StepKeeps == IInv /\ [Next]_vars => IInv'
<1> SUFFICES ASSUME IInv, [Next]_vars
             PROVE  IInv'
  OBVIOUS
<1>1. CASE ExportLedger
  BY <1>1, ExportKeeps
<1>2. CASE Upload
  BY <1>2, UploadKeeps
<1>3. CASE Correct
  BY <1>3, CorrectKeeps
<1>4. CASE Submit
  BY <1>4, SubmitKeeps
<1>5. ASSUME NEW d \in Domain, Decide(d)
      PROVE  IInv'
  BY <1>5, DecideKeeps
<1>6. ASSUME NEW d \in Domain, Apply(d)
      PROVE  IInv'
  BY <1>6, ApplyKeeps
<1>7. CASE CreateService \/ EditService \/ EditDevice
  BY <1>7, FormsKeep
<1>8. CASE UNCHANGED vars
  BY <1>8, StutterKeeps
<1> QED
  BY <1>1, <1>2, <1>3, <1>4, <1>5, <1>6, <1>7, <1>8 DEF Next

LEMMA InvAlways == Spec => []IInv
BY InitHolds, StepKeeps, PTL DEF Spec

(* Every ledger the program reaches is typed and keyed: numbers and codes  *)
(* stay unique and each device keeps a service, whatever sheets are        *)
(* uploaded, corrected, reviewed and applied between edits in the forms    *)
(* (services/imports.py, services/reviews.py, main.py).                    *)
THEOREM TypeCorrect == Spec => []TypeOK
<1>1. IInv => TypeOK
  BY InvImpliesTypeOK
<1> QED
  BY <1>1, InvAlways, PTL

(* No change set ever holds two items for one record or one new key, so    *)
(* applying it in any order gives the same ledger.                         *)
THEOREM OneItemAlways == Spec => []OneItemPerRecord
<1>1. IInv => OneItemPerRecord
  BY InvImpliesOneItem
<1> QED
  BY <1>1, InvAlways, PTL

-----------------------------------------------------------------------------
(* What applying a change set does. *)

LEMMA AppliedByApply ==
  ASSUME IInv, Next, NEW d \in Domain,
         sets[d].status = "approved", sets'[d].status = "applied"
  PROVE  Apply(d)
<1>1. sets \in [Domain -> [status : SetStatus, items : SUBSET Item]]
  BY DEF IInv, Types
<1>2. CASE ExportLedger \/ Correct \/ CreateService \/ EditService \/ EditDevice
  <2>1. sets' = sets
    BY <1>2 DEF ExportLedger, Correct, CreateService, EditService, EditDevice, Edits
  <2> QED
    BY <2>1
<1>3. CASE Upload
  <2>1. sets' = NoSets
    BY <1>3 DEF Upload, Begin
  <2> QED
    BY <2>1 DEF NoSets, NoSet
<1>4. CASE Submit
  BY <1>4 DEF Submit, Pending
<1>5. ASSUME NEW o \in Domain, Decide(o)
      PROVE  FALSE
  <2>1. PICK decision \in {"approved", "returned", "rejected"} :
           sets' = Restatused(sets, o, decision)
    BY <1>5 DEF Decide, Restatused
  <2>2. decision \in SetStatus /\ sets[o].status = "submitted"
    BY <1>5 DEF SetStatus, Decide
  <2>3. o # d
    BY <2>2
  <2>4. sets'[d] = sets[d]
    BY <1>1, <2>1, <2>2, <2>3, SetRestatused
  <2> QED
    BY <2>4
<1>6. ASSUME NEW o \in Domain, Apply(o), o # d
      PROVE  FALSE
  <2>1. sets' = Restatused(sets, o, "applied") /\ "applied" \in SetStatus
    BY <1>6 DEF Apply, Restatused, SetStatus
  <2>2. sets'[d] = sets[d]
    BY <1>1, <1>6, <2>1, SetRestatused
  <2> QED
    BY <2>2
<1> QED
  BY <1>2, <1>3, <1>4, <1>5, <1>6 DEF Next

LEMMA NetworkApplied ==
  ASSUME IInv, Apply("network")
  PROVE  /\ \A x \in sets["network"].items : DeviceApplies(x)
         /\ \A d \in Ids(devices) : devices'[d].service = devices[d].service
<1> DEFINE items == sets["network"].items
<1>1. /\ Keyed(services, devices)
      /\ items \in SUBSET DeviceItem /\ IsFiniteSet(items)
      /\ Distinct(items) /\ CodesDistinct(items)
  BY DEF IInv, Types, ItemsOK
<1>2. (\A x \in items : DeviceApplies(x)) /\ ApplyDevices(items)
  BY DEF Apply, Applicable
<1> HIDE DEF items
<1>3. /\ \A d \in Ids(devices) :
           (\A x \in items : x.id # d) => devices'[d] = devices[d]
      /\ \A d \in Ids(devices) : \A x \in items : x.id = d =>
           devices'[d].service = devices[d].service
  BY <1>1, <1>2, NetworkWritten
<1>4. ASSUME NEW d \in Ids(devices)
      PROVE  devices'[d].service = devices[d].service
  BY <1>3
<1> QED
  BY <1>2, <1>4 DEF items

(* Applying a change set never hands a device to another service, however  *)
(* numbers and devices moved since the sheet was validated: _apply_device  *)
(* compares the service of the device with the one the number names now.   *)
THEOREM DevicesStay == Spec => NoDeviceMoves
<1>1. IInv /\ [Next]_vars =>
        [sets'["network"].status = "applied" /\ sets["network"].status = "approved" =>
            \A d \in Ids(devices) : devices'[d].service = devices[d].service]_vars
  <2> SUFFICES ASSUME IInv, Next,
                      sets'["network"].status = "applied", sets["network"].status = "approved"
               PROVE  \A d \in Ids(devices) : devices'[d].service = devices[d].service
    OBVIOUS
  <2>1. Apply("network")
    BY AppliedByApply, DomainIs
  <2> QED
    BY <2>1, NetworkApplied
<1> QED
  BY <1>1, InvAlways, PTL DEF Spec, NoDeviceMoves

(* An item made from an export is applied to the very record that was      *)
(* exported: the version in the sheet is compared when the sheet is        *)
(* validated and again when the item is applied, versions never fall and a *)
(* record with the exported version is the exported one.                   *)
THEOREM StaleNeverWins == Spec => StaleExportNeverWins
<1> DEFINE Wins(d) ==
      sets[d].status = "approved" /\ sets'[d].status = "applied" =>
        \A item \in sets[d].items : item.id # NoId /\ item.from # 0 =>
            IF d = "business" THEN services[item.id] = batch.from[1][item.id]
            ELSE devices[item.id] = batch.from[2][item.id]
<1>1. IInv /\ [Next]_vars => [\A d \in Domain : Wins(d)]_vars
  <2> SUFFICES ASSUME IInv, Next, NEW d \in Domain,
                      sets[d].status = "approved", sets'[d].status = "applied",
                      NEW item \in sets[d].items, item.id # NoId, item.from # 0
               PROVE  IF d = "business" THEN services[item.id] = batch.from[1][item.id]
                      ELSE devices[item.id] = batch.from[2][item.id]
    OBVIOUS
  <2>1. Apply(d)
    BY AppliedByApply
  <2>2. /\ Keyed(services, devices) /\ batch.from \in Snapshots
        /\ Earlier(batch.from, services, devices) /\ ItemsOK
    BY DEF IInv, Types
  <2>3. CASE d = "business"
    <3> DEFINE old == batch.from[1][item.id]
               new == services[item.id]
    <3>1. /\ batch.from # <<>> /\ item.id \in Ids(batch.from[1])
          /\ item.base = old.version
      BY <2>2, <2>3 DEF ItemsOK, ItemsTraced
    <3>2. Kept(old, new) /\ item.id \in Ids(services)
      BY <2>2, <3>1 DEF Earlier
    <3>3. new.version = item.base
      BY <2>1, <2>3 DEF Apply, Applicable, BusinessApplies
    <3>4. services \in Seq(ServiceRow)
      BY <2>2 DEF Keyed
    <3>5. new \in ServiceRow
      BY <3>2, <3>4, RowsOfTable
    <3> HIDE DEF old, new
    <3>6. new.version \in Nat
      BY <3>5 DEF ServiceRow
    <3>7. old = new
      BY <3>1, <3>2, <3>3, <3>6 DEF Kept
    <3> QED
      BY <2>3, <3>7 DEF old, new
  <2>4. CASE d = "network"
    <3> DEFINE old == batch.from[2][item.id]
               new == devices[item.id]
    <3>1. /\ batch.from # <<>> /\ item.id \in Ids(batch.from[2])
          /\ item.base = old.version
      BY <2>2, <2>4 DEF ItemsOK, ItemsTraced
    <3>2. Kept(old, new) /\ item.id \in Ids(devices)
      BY <2>2, <3>1 DEF Earlier
    <3>3. new.version = item.base
      BY <2>1, <2>4 DEF Apply, Applicable, DeviceApplies
    <3>4. devices \in Seq(DeviceRow)
      BY <2>2 DEF Keyed
    <3>5. new \in DeviceRow
      BY <3>2, <3>4, RowsOfTable
    <3> HIDE DEF old, new
    <3>6. new.version \in Nat
      BY <3>5 DEF DeviceRow
    <3>7. old = new
      BY <3>1, <3>2, <3>3, <3>6 DEF Kept
    <3> QED
      BY <2>4, <3>7 DEF old, new
  <2> QED
    BY <2>3, <2>4, DomainIs
<1> QED
  BY <1>1, InvAlways, PTL DEF Spec, StaleExportNeverWins

-----------------------------------------------------------------------------
(* An export that comes back as it is. *)

ExportedService(r, s) ==
    /\ r.number = services[s].number /\ r.manager = Shown[services[s].manager]
    /\ r.sid = s /\ r.sver = services[s].version
    /\ r.number \in Numbers /\ ServiceOf(r) = s /\ s # NoId

ExportedDevice(r, s, d) ==
    /\ d \in Ids(devices) /\ d # NoId /\ devices[d].service = s
    /\ r.codes = Parts[devices[d].code] /\ DeviceOf(devices[d].code) = d
    /\ r.did = d /\ r.dver = devices[d].version
    /\ r.keeper = devices[d].keeper /\ r.recovery = devices[d].recovery

LEMMA ExportedRow ==
  ASSUME Keyed(services, devices), NEW i \in Ids(Export(services, devices))
  PROVE  LET r == Export(services, devices)[i] IN \E s \in Ids(services) :
           /\ ExportedService(r, s)
           /\ \/ r.codes = {} /\ r.did = NoId /\ DevicesOf(devices, s) = {}
              \/ \E d \in Ids(devices) :
                    ExportedDevice(r, s, d) /\ r = Line(s, services[s], d, devices[d])
<1> DEFINE r == Export(services, devices)[i]
<1>1. /\ services \in Seq(ServiceRow) /\ NumbersUnique(services)
      /\ devices \in Seq(DeviceRow) /\ CodesUnique(devices)
  BY DEF Keyed
<1>2. PICK s \in Ids(services) : r \in ServiceLines(services, devices, s)
  BY <1>1, ExportIsASheet
<1>3. /\ services[s] \in ServiceRow /\ s \in Nat \ {0}
      /\ \A d \in Ids(devices) : devices[d] \in DeviceRow /\ d \in Nat \ {0}
  BY <1>1, RowsOfTable
<1>4. services[s].number \in Numbers
  BY <1>3 DEF ServiceRow
<1>5. IdIn(Numbered(services, services[s].number)) = s
  BY <1>1, NumberedFacts
<1> HIDE DEF r
<1>6. ASSUME NEW d, NEW device, r = Line(s, services[s], d, device)
      PROVE  /\ ExportedService(r, s)
             /\ r.codes = Parts[device.code] /\ r.did = d /\ r.dver = device.version
             /\ r.keeper = device.keeper /\ r.recovery = device.recovery
  <2>1. /\ r.number = services[s].number /\ r.manager = Shown[services[s].manager]
        /\ r.sid = s /\ r.sver = services[s].version
        /\ r.codes = Parts[device.code] /\ r.did = d /\ r.dver = device.version
        /\ r.keeper = device.keeper /\ r.recovery = device.recovery
    BY <1>6 DEF Line
  <2>2. ServiceOf(r) = s
    BY <1>5, <2>1 DEF ServiceOf
  <2> QED
    BY <1>3, <1>4, <2>1, <2>2 DEF ExportedService, NoId
<1>7. CASE DevicesOf(devices, s) = {}
  <2>1. r = Line(s, services[s], NoId, NoDevice)
    BY <1>2, <1>7 DEF ServiceLines
  <2>2. r.codes = {} /\ r.did = NoId
    <3>1. r.codes = Parts[NoDevice.code] /\ r.did = NoId
      BY <1>6, <2>1
    <3>2. NoDevice.code = Blank
      BY DEF NoDevice
    <3> QED
      BY <3>1, <3>2, PartsAre
  <2> QED
    BY <1>6, <1>7, <2>1, <2>2 DEF r
<1>8. CASE DevicesOf(devices, s) # {}
  <2>1. PICK d \in DevicesOf(devices, s) : r = Line(s, services[s], d, devices[d])
    BY <1>2, <1>8 DEF ServiceLines
  <2>2. d \in Ids(devices) /\ devices[d].service = s
    BY DEF DevicesOf
  <2>3. devices[d].code \in Codes /\ d # NoId
    BY <1>3, <2>2 DEF DeviceRow, NoId
  <2>5. IdIn(Coded(devices, devices[d].code)) = d
    BY <1>1, <2>2, CodedFacts
  <2>6. /\ ExportedService(r, s)
        /\ r.codes = Parts[devices[d].code] /\ r.did = d /\ r.dver = devices[d].version
        /\ r.keeper = devices[d].keeper /\ r.recovery = devices[d].recovery
    BY <1>6, <2>1
  <2>8. ExportedDevice(r, s, d)
    BY <2>2, <2>3, <2>5, <2>6 DEF ExportedDevice, DeviceOf
  <2> QED
    BY <2>1, <2>2, <2>6, <2>8 DEF r
<1> QED
  BY <1>7, <1>8

(* A row of an export is in error for a value of its own, or of a row that *)
(* has one of its codes.                                                   *)
LEMMA ErrorsAreRefused ==
  ASSUME Keyed(services, devices), NEW i \in Ids(Export(services, devices)),
         \A j \in Ids(Export(services, devices)) :
            j = i \/ Export(services, devices)[j].codes
                       \cap Export(services, devices)[i].codes # {}
              => ~Refusable(Export(services, devices)[j])
  PROVE  ~Faulty(Export(services, devices), i)
<1> DEFINE E == Export(services, devices)
           r == E[i]
<1>1. /\ services \in Seq(ServiceRow) /\ NumbersUnique(services)
      /\ devices \in Seq(DeviceRow) /\ CodesUnique(devices)
  BY DEF Keyed
<1>2. PICK s \in Ids(services) :
         /\ ExportedService(r, s)
         /\ \/ r.codes = {} /\ r.did = NoId /\ DevicesOf(devices, s) = {}
            \/ \E d \in Ids(devices) :
                  ExportedDevice(r, s, d) /\ r = Line(s, services[s], d, devices[d])
  BY ExportedRow
<1>3. /\ Ids(E) \subseteq Nat
      /\ \A j, k \in Ids(E) : E[j] = E[k] => j = k
  <2>1. E \in Seq(Row)
    BY <1>1, ExportIsASheet DEF Sheet
  <2>2. Ids(E) \subseteq Nat \ {0}
    BY <2>1, RowsOfTable
  <2> QED
    BY <1>1, <2>2, ExportIsASheet
<1>4. ASSUME NEW j \in Ids(E), E[j].number = r.number
      PROVE  /\ ExportedService(E[j], s)
             /\ \/ E[j].codes = {} /\ DevicesOf(devices, s) = {}
                \/ \E d \in Ids(devices) :
                     ExportedDevice(E[j], s, d) /\ E[j] = Line(s, services[s], d, devices[d])
  <2>1. PICK t \in Ids(services) :
           /\ ExportedService(E[j], t)
           /\ \/ E[j].codes = {} /\ E[j].did = NoId /\ DevicesOf(devices, t) = {}
              \/ \E d \in Ids(devices) :
                    ExportedDevice(E[j], t, d) /\ E[j] = Line(t, services[t], d, devices[d])
    BY ExportedRow
  <2>2. services[t].number = services[s].number
    BY <1>2, <1>4, <2>1 DEF ExportedService
  <2>3. t = s
    BY <1>1, <2>2 DEF NumbersUnique
  <2> QED
    BY <2>1, <2>3
<1>12. i \in Ids(E) /\ ~Refusable(r)
  OBVIOUS
<1>13. ASSUME NEW j \in Ids(E), NEW c \in E[j].codes, c \in r.codes
       PROVE  ~Refusable(E[j])
  BY <1>13
<1> HIDE DEF E
<1>14. ({r.manager, r.keeper} \cup r.codes) \cap Refused = {}
  BY <1>12 DEF Refusable
<1>15. r.did # NoId => r.codes = {devices[r.did].code}
  BY <1>12 DEF Refusable
<1>5. ~(r.number = Blank \/ WrongService(r) \/ ServiceOutdated(r))
  <2>1. r.number # Blank
    BY <1>2, LedgerAssumption DEF ExportedService
  <2>2. ~WrongService(r)
    BY <1>2 DEF WrongService, ExportedService
  <2>3. ~ServiceOutdated(r)
    BY <1>2 DEF ServiceOutdated, ExportedService
  <2> QED
    BY <2>1, <2>2, <2>3
<1>6. ~Conflicts(E, i)
  <2> DEFINE j == First(Group(E, r.number))
  <2>1. i \in Group(E, r.number) /\ Group(E, r.number) \subseteq Ids(E)
    BY DEF Group, E
  <2>2. j \in Group(E, r.number)
    BY <1>3, <2>1, FirstIsIn
  <2>3. j \in Ids(E) /\ E[j].number = r.number
    BY <2>2 DEF Group
  <2> HIDE DEF j
  <2>4. E[j].manager = r.manager
    BY <1>2, <1>4, <2>3 DEF ExportedService
  <2> QED
    BY <2>4 DEF Conflicts, j
<1>7. ~LacksCode(E, i)
  <2> SUFFICES ASSUME r.codes = {}, NEW j \in Group(E, r.number), E[j].codes # {}
               PROVE  FALSE
    BY DEF LacksCode
  <2>1. j \in Ids(E) /\ E[j].number = r.number
    BY DEF Group
  <2>2. DevicesOf(devices, s) = {}
    BY <1>2, <1>15 DEF ExportedDevice
  <2>3. PICK d \in Ids(devices) : ExportedDevice(E[j], s, d)
    BY <1>4, <2>1
  <2> QED
    BY <2>2, <2>3 DEF ExportedDevice, DevicesOf
<1>8. ASSUME NEW c \in r.codes
      PROVE  \E d \in Ids(devices) : /\ ExportedDevice(r, s, d) /\ c = devices[d].code
                                     /\ r = Line(s, services[s], d, devices[d])
  BY <1>2, <1>15 DEF ExportedDevice
<1>9. ~RepeatsCode(E, i)
  <2> SUFFICES ASSUME NEW c \in r.codes
               PROVE  First(Holders(E, c)) = i
    BY DEF RepeatsCode
  <2> DEFINE j == First(Holders(E, c))
  <2>1. i \in Holders(E, c) /\ Holders(E, c) \subseteq Ids(E)
    BY DEF Holders, E
  <2>2. j \in Holders(E, c)
    BY <1>3, <2>1, FirstIsIn
  <2>3. j \in Ids(E) /\ c \in E[j].codes
    BY <2>2 DEF Holders
  <2> HIDE DEF j
  <2>4. PICK d \in Ids(devices) : /\ ExportedDevice(r, s, d) /\ c = devices[d].code
                                  /\ r = Line(s, services[s], d, devices[d])
    BY <1>8
  <2>5. PICK t \in Ids(services) :
           \/ E[j].codes = {} /\ E[j].did = NoId /\ DevicesOf(devices, t) = {}
           \/ \E e \in Ids(devices) :
                 ExportedDevice(E[j], t, e) /\ E[j] = Line(t, services[t], e, devices[e])
    BY <2>3, ExportedRow DEF E
  <2>6. PICK e \in Ids(devices) :
           ExportedDevice(E[j], t, e) /\ E[j] = Line(t, services[t], e, devices[e])
    BY <2>3, <2>5
  <2>7. devices[e].code = devices[d].code
    <3>1. ~Refusable(E[j])
      BY <1>13, <2>3
    <3>2. E[j].did = e /\ e # NoId
      BY <2>6 DEF ExportedDevice
    <3>3. E[j].codes = {devices[e].code}
      BY <3>1, <3>2 DEF Refusable
    <3> QED
      BY <2>3, <2>4, <3>3
  <2>8. e = d
    BY <1>1, <2>7 DEF CodesUnique
  <2>9. t = s
    BY <2>4, <2>6, <2>8 DEF ExportedDevice
  <2>10. E[j] = r
    BY <2>4, <2>6, <2>8, <2>9
  <2>11. i \in Ids(E)
    BY DEF E
  <2> QED
    BY <1>3, <2>3, <2>10, <2>11 DEF j
<1>10. ASSUME NEW c \in r.codes
       PROVE  /\ DeviceOf(c) = r.did /\ devices[DeviceOf(c)].service = ServiceOf(r)
              /\ devices[DeviceOf(c)].version = r.dver
  <2>1. PICK d \in Ids(devices) : ExportedDevice(r, s, d) /\ c = devices[d].code
    BY <1>8
  <2> QED
    BY <1>2, <2>1 DEF ExportedDevice, ExportedService
<1>11. ~(WrongDevice(r) \/ OwnedByOther(r) \/ DeviceOutdated(r))
  BY <1>10 DEF WrongDevice, OwnedByOther, DeviceOutdated
<1> QED
  BY <1>5, <1>6, <1>7, <1>9, <1>11, <1>14 DEF Faulty, E

LEMMA UnchangedIfKeyed ==
  ASSUME Keyed(services, devices)
  PROVE  ExportIsUnchanged
<1> DEFINE E == Export(services, devices)
           v == Validate(E)
<1>1. Sheet(E)
  BY ExportIsASheet DEF Keyed
<1>2. /\ v \in Seq(StagedRow) /\ Ids(v) = Ids(E) /\ Matched(v)
      /\ \A i \in Ids(E) : v[i] = Stage(E, i)
  BY <1>1, ValidateIsMatched
<1>3. ASSUME NEW i \in Ids(E)
      PROVE  /\ v[i].error = Faulty(E, i)
             /\ v[i].id = ServiceOf(E[i]) /\ v[i].manager = E[i].manager
  <2>1. v[i] = Stage(E, i)
    BY <1>2
  <2> HIDE DEF E, v
  <2>2. /\ Stage(E, i).error = Faulty(E, i) /\ Stage(E, i).id = ServiceOf(E[i])
        /\ Stage(E, i).manager = E[i].manager
    BY DEF Stage
  <2> QED
    BY <2>1, <2>2
<1>4. ASSUME NEW i \in Ids(v), v[i].error
      PROVE  \E j \in Ids(E) : Refusable(E[j])
                /\ (j = i \/ E[j].codes \cap E[i].codes # {})
  BY <1>2, <1>3, <1>4, ErrorsAreRefused
<1>5. ASSUME NEW i \in Ids(E), BusinessChanged(v[i])
      PROVE  /\ v[i].id # NoId
             /\ Shown[services[v[i].id].manager] # services[v[i].id].manager
  <2>1. PICK s \in Ids(services) : ExportedService(E[i], s)
    BY ExportedRow
  <2> QED
    BY <1>3, <1>5, <2>1 DEF BusinessChanged, ExportedService
<1>6. ASSUME Clean(v), NEW i \in Ids(E), NEW data \in v[i].devices
      PROVE  ~DeviceChanged(data)
  <2>1. data.code \in E[i].codes /\ data = DeviceOfRow(E[i], data.code)
    BY <1>1, <1>2, StageIsTyped
  <2>2. PICK s \in Ids(services) : \E d \in Ids(devices) : ExportedDevice(E[i], s, d)
    BY <2>1, ExportedRow
  <2>3. PICK d \in Ids(devices) : ExportedDevice(E[i], s, d)
    BY <2>2
  <2>6. ~Faulty(E, i)
    BY <1>2, <1>3, <1>6 DEF Clean
  <2>7. DeviceOf(data.code) = d
    <3>1. ~WrongDevice(E[i])
      BY <2>6 DEF Faulty
    <3> QED
      BY <2>1, <2>3, <3>1 DEF WrongDevice, ExportedDevice
  <2>4. /\ DeviceOf(data.code) = d /\ d # NoId
        /\ E[i].keeper = devices[d].keeper /\ E[i].recovery = devices[d].recovery
    BY <2>3, <2>7 DEF ExportedDevice
  <2>5. /\ data.id = DeviceOf(data.code) /\ data.keeper = E[i].keeper
        /\ data.recovery = E[i].recovery
    <3>1. \A z : z = DeviceOfRow(E[i], data.code) =>
             /\ z.id = DeviceOf(data.code) /\ z.keeper = E[i].keeper
             /\ z.recovery = E[i].recovery
      BY DEF DeviceOfRow
    <3> QED
      BY <2>1, <3>1
  <2> QED
    BY <2>4, <2>5 DEF DeviceChanged
<1> HIDE DEF v
<1>7. ASSUME NEW x \in BusinessItems(v)
      PROVE  /\ x.id # NoId
             /\ Shown[services[x.id].manager] # services[x.id].manager
  <2>1. PICK i \in Ids(v) : BusinessChanged(v[i]) /\ x = BusinessOf(v[i])
    BY <1>2, BusinessItemsFrom
  <2>2. x.id = v[i].id
    BY <2>1 DEF BusinessOf
  <2> QED
    BY <1>2, <1>5, <2>1, <2>2
<1>8. ASSUME Clean(v)
      PROVE  DeviceItems(v) = {}
  <2> SUFFICES ASSUME NEW x \in DeviceItems(v)
               PROVE  FALSE
    OBVIOUS
  <2>1. PICK i \in Ids(v) : \E data \in v[i].devices : DeviceChanged(data)
    BY <1>2, DeviceItemsFrom
  <2> QED
    BY <1>2, <1>6, <1>8, <2>1
<1> QED
  BY <1>4, <1>7, <1>8 DEF ExportIsUnchanged, v

(* Whatever the ledger has become, matching, grouping and the comparison   *)
(* of versions undo what its export wrote: what a row is refused for is a  *)
(* phone or a code the forms let in, and without errors there is nothing   *)
(* to review but dates the export cut short.                               *)
THEOREM ExportComesBack == Spec => []ExportIsUnchanged
<1>1. IInv => ExportIsUnchanged
  BY UnchangedIfKeyed DEF IInv, Types
<1> QED
  BY <1>1, InvAlways, PTL

-----------------------------------------------------------------------------
(* What validation knows of a sheet, as facts about the tables it saw.     *)

NumberId(S, n) == IdIn(Numbered(S, n))
CodeId(D, c) == IdIn(Coded(D, c))

Sound(rows, i) ==
    /\ rows[i].number # Blank
    /\ ({rows[i].manager, rows[i].keeper} \cup rows[i].codes) \cap Refused = {}
    /\ ~Conflicts(rows, i) /\ ~LacksCode(rows, i) /\ ~RepeatsCode(rows, i)

DeviceStagedAs(x, r, D) ==
    /\ x.code \in r.codes /\ x.keeper = r.keeper /\ x.recovery = r.recovery
    /\ x.id = CodeId(D, x.code) /\ x.base = VersionOf(D, x.id)

RowStagedAs(row, r, S, D) ==
    /\ row.number = r.number /\ row.manager = r.manager
    /\ row.id = NumberId(S, r.number) /\ row.base = VersionOf(S, row.id)
    /\ \A x \in row.devices : DeviceStagedAs(x, r, D)
    /\ \A c \in r.codes : \E x \in row.devices : x.code = c

Owned(row, D) == \A x \in row.devices : x.id # NoId => D[x.id].service = row.id

StagedAs(staged, rows, S, D) ==
    /\ Ids(staged) = Ids(rows)
    /\ \A i \in Ids(rows) :
          /\ RowStagedAs(staged[i], rows[i], S, D)
          /\ ~staged[i].error => Sound(rows, i) /\ Owned(staged[i], D)

LEMMA ValidateIsStagedAs ==
  ASSUME Keyed(services, devices), NEW sheet, Sheet(sheet)
  PROVE  StagedAs(Validate(sheet), sheet, services, devices)
<1>1. /\ Ids(Validate(sheet)) = Ids(sheet)
      /\ \A i \in Ids(sheet) : Validate(sheet)[i] = Stage(sheet, i)
  BY ValidateIsMatched
<1>2. ASSUME NEW i \in Ids(sheet)
      PROVE  /\ RowStagedAs(Stage(sheet, i), sheet[i], services, devices)
             /\ ~Stage(sheet, i).error => Sound(sheet, i) /\ Owned(Stage(sheet, i), devices)
  <2> DEFINE r == sheet[i]
             row == Stage(sheet, i)
  <2>1. /\ row.number = r.number /\ row.manager = r.manager
        /\ row.id = ServiceOf(r) /\ row.base = VersionOf(services, ServiceOf(r))
        /\ row.error = Faulty(sheet, i)
    BY DEF Stage
  <2>2. /\ \A x \in row.devices : x.code \in r.codes /\ x = DeviceOfRow(r, x.code)
        /\ \A c \in r.codes : DeviceOfRow(r, c) \in row.devices
    BY StageIsTyped
  <2>3. \A c : /\ DeviceOfRow(r, c).code = c /\ DeviceOfRow(r, c).id = DeviceOf(c)
               /\ DeviceOfRow(r, c).base = VersionOf(devices, DeviceOf(c))
               /\ DeviceOfRow(r, c).keeper = r.keeper
               /\ DeviceOfRow(r, c).recovery = r.recovery
    BY DEF DeviceOfRow
  <2> HIDE DEF row
  <2>4. \A x \in row.devices : DeviceStagedAs(x, r, devices)
    BY <2>2, <2>3 DEF DeviceStagedAs, DeviceOf, CodeId
  <2>5. \A c \in r.codes : \E x \in row.devices : x.code = c
    BY <2>2, <2>3
  <2>6. RowStagedAs(row, r, services, devices)
    BY <2>1, <2>4, <2>5 DEF RowStagedAs, NumberId, ServiceOf
  <2>7. ASSUME ~row.error
        PROVE  Sound(sheet, i) /\ Owned(row, devices)
    <3>1. ~Faulty(sheet, i)
      BY <2>1, <2>7
    <3>2. Sound(sheet, i) /\ ~OwnedByOther(r)
      BY <3>1 DEF Faulty, Sound
    <3>3. ASSUME NEW x \in row.devices, x.id # NoId
          PROVE  devices[x.id].service = row.id
      <4>1. x.code \in r.codes /\ x.id = DeviceOf(x.code)
        BY <2>2, <2>3
      <4> QED
        BY <2>1, <3>2, <3>3, <4>1 DEF OwnedByOther
    <3> QED
      BY <3>2, <3>3 DEF Owned
  <2> QED
    BY <2>6, <2>7 DEF row
<1> QED
  BY <1>1, <1>2 DEF StagedAs
-----------------------------------------------------------------------------
(* Items that fit the tables: all of them can be applied. *)

BusinessFits(items, S) == \A x \in items :
    IF x.id = NoId THEN Numbered(S, x.number) = {} ELSE S[x.id].version = x.base

DeviceFits(x, S, D) ==
    IF x.id = NoId THEN Coded(D, x.code) = {}
    ELSE /\ x.id \in Ids(D) /\ D[x.id].version = x.base
         /\ D[x.id].service = NumberId(S, x.number)

(* The business items may still have to create the services of devices. *)
NetworkFits(items, business, S, D) == \A x \in items :
    /\ DeviceFits(x, S, D)
    /\ \/ Numbered(S, x.number) # {}
       \/ \E y \in business : y.id = NoId /\ y.number = x.number

LEMMA ItemsFit ==
  ASSUME Keyed(services, devices), NEW staged \in Seq(StagedRow), Matched(staged),
         Clean(staged), NEW rows, StagedAs(staged, rows, services, devices)
  PROVE  /\ BusinessFits(BusinessItems(staged), services)
         /\ NetworkFits(DeviceItems(staged), BusinessItems(staged), services, devices)
<1>1. /\ services \in Seq(ServiceRow) /\ NumbersUnique(services)
      /\ devices \in Seq(DeviceRow) /\ CodesUnique(devices)
  BY DEF Keyed
<1>2. ASSUME NEW i \in Ids(staged)
      PROVE  /\ ~staged[i].error /\ i \in Ids(rows)
             /\ RowStagedAs(staged[i], rows[i], services, devices)
             /\ Owned(staged[i], devices)
  BY <1>2 DEF Clean, StagedAs
<1>3. ASSUME NEW i \in Ids(staged)
      PROVE  /\ staged[i].id = NumberId(services, staged[i].number)
             /\ staged[i].base = VersionOf(services, staged[i].id)
  BY <1>2 DEF RowStagedAs
<1>4. ASSUME NEW i \in Ids(staged), NEW x \in staged[i].devices
      PROVE  /\ x.id = CodeId(devices, x.code) /\ x.base = VersionOf(devices, x.id)
             /\ x.id # NoId => devices[x.id].service = staged[i].id
  BY <1>2 DEF RowStagedAs, DeviceStagedAs, Owned
<1>5. \A row : /\ BusinessOf(row).id = row.id /\ BusinessOf(row).base = row.base
               /\ BusinessOf(row).number = row.number /\ BusinessOf(row).manager = row.manager
  BY DEF BusinessOf
<1>6. \A row, x : /\ NetworkOf(row, x).id = x.id /\ NetworkOf(row, x).base = x.base
                  /\ NetworkOf(row, x).number = row.number /\ NetworkOf(row, x).code = x.code
  BY DEF NetworkOf
<1>7. ASSUME NEW item \in BusinessItems(staged)
      PROVE  IF item.id = NoId THEN Numbered(services, item.number) = {}
             ELSE services[item.id].version = item.base
  <2>1. PICK i \in Ids(staged) : item = BusinessOf(staged[i])
    BY BusinessItemsFrom
  <2>2. /\ item.id = NumberId(services, item.number)
        /\ item.base = VersionOf(services, item.id)
    BY <1>3, <1>5, <2>1
  <2>3. item.id = NoId => Numbered(services, item.number) = {}
    BY <1>1, <2>2, NumberedFacts DEF NumberId
  <2> QED
    BY <2>2, <2>3 DEF VersionOf
<1>8. ASSUME NEW item \in DeviceItems(staged)
      PROVE  /\ DeviceFits(item, services, devices)
             /\ \/ Numbered(services, item.number) # {}
                \/ \E y \in BusinessItems(staged) : y.id = NoId /\ y.number = item.number
  <2>1. PICK i \in Ids(staged) : \E x \in staged[i].devices : item = NetworkOf(staged[i], x)
    BY DeviceItemsFrom
  <2>2. PICK x \in staged[i].devices : item = NetworkOf(staged[i], x)
    BY <2>1
  <2>3. /\ item.id = CodeId(devices, item.code)
        /\ item.base = VersionOf(devices, item.id)
        /\ item.number = staged[i].number
        /\ item.id # NoId => devices[item.id].service = staged[i].id
    BY <1>4, <1>6, <2>2
  <2>4. item.id = NoId => Coded(devices, item.code) = {}
    BY <1>1, <2>3, CodedFacts DEF CodeId
  <2>5. DeviceFits(item, services, devices)
    <3>1. item.id # NoId => item.id \in Ids(devices)
      BY <1>1, <2>3, CodedFacts DEF CodeId
    <3> QED
      BY <1>3, <2>3, <2>4, <3>1 DEF DeviceFits, VersionOf
  <2>6. ASSUME Numbered(services, item.number) = {}
        PROVE  \E y \in BusinessItems(staged) : y.id = NoId /\ y.number = item.number
    <3> DEFINE j == First(Group(staged, staged[i].number))
    <3>1. j \in Ids(staged) /\ staged[j].number = staged[i].number /\ Leads(staged, j)
      BY GroupsHaveLeaders
    <3> HIDE DEF j
    <3>2. NumberId(services, item.number) = NoId
      BY <1>1, <2>6, NumberedFacts DEF NumberId
    <3>3. staged[j].id = NoId
      BY <1>3, <2>3, <3>1, <3>2
    <3>4. BusinessOf(staged[j]) \in BusinessItems(staged)
      BY <3>1, <3>3, BusinessItemsFrom DEF BusinessChanged
    <3> QED
      BY <1>5, <2>3, <3>1, <3>3, <3>4
  <2> QED
    BY <2>5, <2>6
<1> QED
  BY <1>7, <1>8 DEF BusinessFits, NetworkFits

(* The items of a change set that is still to be applied. *)
Waiting(s, d) == IF s[d].status \in Pending THEN s[d].items ELSE {}
Undecided == {"none", "submitted", "approved", "applied"}

(* As long as nobody else changed the ledger, the rows are staged as the   *)
(* tables are now and what waits for application fits them.                *)
Foreseen == fresh =>
    /\ (\A d \in Domain : sets[d].status # "applied") =>
          StagedAs(batch.staged, batch.rows, services, devices)
    /\ BusinessFits(Waiting(sets, "business"), services)
    /\ sets["business"].status \in Undecided =>
          NetworkFits(Waiting(sets, "network"), Waiting(sets, "business"), services, devices)

LEMMA NothingWaits ==
  ASSUME NEW S, NEW D, NEW business
  PROVE  BusinessFits({}, S) /\ NetworkFits({}, business, S, D)
BY DEF BusinessFits, NetworkFits

LEMMA WaitingRestatused ==
  ASSUME NEW s \in [Domain -> [status : SetStatus, items : SUBSET Item]],
         NEW d \in Domain, NEW status \in SetStatus
  PROVE  /\ Waiting(Restatused(s, d, status), d) =
               IF status \in Pending THEN s[d].items ELSE {}
         /\ \A o \in Domain \ {d} : Waiting(Restatused(s, d, status), o) = Waiting(s, o)
BY SetRestatused DEF Waiting

LEMMA NumbersKept ==
  ASSUME NEW S \in Seq(ServiceRow), NumbersUnique(S), NEW T \in Seq(ServiceRow),
         NumbersUnique(T), Ids(S) \subseteq Ids(T),
         \A s \in Ids(S) : T[s].number = S[s].number
  PROVE  \A n : NumberId(S, n) # NoId => NumberId(T, n) = NumberId(S, n)
<1> SUFFICES ASSUME NEW n, NumberId(S, n) # NoId
             PROVE  NumberId(T, n) = NumberId(S, n)
  OBVIOUS
<1> DEFINE s == NumberId(S, n)
<1>1. s \in Ids(S) /\ S[s].number = n
  BY NumberedFacts DEF NumberId
<1> HIDE DEF s
<1>2. s \in Ids(T) /\ T[s].number = n
  BY <1>1
<1>3. IdIn(Numbered(T, T[s].number)) = s
  BY <1>2, NumberedFacts
<1> QED
  BY <1>2, <1>3 DEF s, NumberId

(* What the services become, told by their numbers. *)
LEMMA BusinessTakesEffect ==
  ASSUME Keyed(services, devices),
         NEW items \in SUBSET BusinessItem, IsFiniteSet(items),
         Distinct(items), NumbersDistinct(items),
         \A x \in items : BusinessApplies(x), ApplyBusiness(items)
  PROVE  /\ \A n : NumberId(services, n) # NoId => NumberId(services', n) = NumberId(services, n)
         /\ \A s \in Ids(services) : \/ services'[s].manager = services[s].manager
                                     \/ \E x \in items : x.id = s
         /\ \A s \in Ids(services) : \A x \in items :
               x.id = s => services'[s].manager = Stored[x.manager]
         /\ \A x \in items : x.id = NoId =>
               /\ NumberId(services', x.number) # NoId
               /\ services'[NumberId(services', x.number)].manager = Stored[x.manager]
<1>1. services \in Seq(ServiceRow) /\ NumbersUnique(services)
  BY DEF Keyed
<1>2. /\ services' \in Seq(ServiceRow) /\ NumbersUnique(services')
      /\ Ids(services) \subseteq Ids(services')
      /\ \A s \in Ids(services) :
            (\A x \in items : x.id # s) => services'[s] = services[s]
      /\ \A s \in Ids(services) : \A x \in items : x.id = s =>
            services'[s].number = services[s].number /\ services'[s].manager = Stored[x.manager]
      /\ \A x \in items : x.id = NoId =>
            \E s \in Ids(services') : services'[s] = NewService(x)
  BY BusinessWritten
<1>3. ASSUME NEW s \in Ids(services)
      PROVE  /\ services'[s].number = services[s].number
             /\ services'[s].manager = services[s].manager \/ \E x \in items : x.id = s
  BY <1>2
<1>4. \A n : NumberId(services, n) # NoId => NumberId(services', n) = NumberId(services, n)
  BY <1>1, <1>2, <1>3, NumbersKept
<1>5. ASSUME NEW x \in items, x.id = NoId
      PROVE  /\ NumberId(services', x.number) # NoId
             /\ services'[NumberId(services', x.number)].manager = Stored[x.manager]
  <2>1. PICK s \in Ids(services') : services'[s] = NewService(x)
    BY <1>2, <1>5
  <2>2. services'[s].number = x.number /\ services'[s].manager = Stored[x.manager]
    BY <2>1 DEF NewService
  <2>3. IdIn(Numbered(services', services'[s].number)) = s
    BY <1>2, NumberedFacts
  <2>4. s # NoId
    <3>1. Ids(services') \subseteq Nat \ {0}
      BY <1>2, RowsOfTable
    <3> QED
      BY <3>1 DEF NoId
  <2> QED
    BY <2>2, <2>3, <2>4 DEF NumberId
<1> QED
  BY <1>2, <1>3, <1>4, <1>5

LEMMA FitsAfterBusiness ==
  ASSUME Keyed(services, devices),
         NEW items \in SUBSET BusinessItem, IsFiniteSet(items),
         Distinct(items), NumbersDistinct(items),
         \A x \in items : BusinessApplies(x), ApplyBusiness(items),
         services' \in Seq(ServiceRow), NumbersUnique(services'),
         NEW network, NetworkFits(network, items, services, devices)
  PROVE  NetworkFits(network, {}, services', devices)
<1>1. /\ services \in Seq(ServiceRow) /\ NumbersUnique(services)
      /\ \A d \in Ids(devices) : devices[d].service \in Ids(services)
  BY DEF Keyed
<1>2. /\ \A n : NumberId(services, n) # NoId => NumberId(services', n) = NumberId(services, n)
      /\ \A x \in items : x.id = NoId => NumberId(services', x.number) # NoId
  BY BusinessTakesEffect
<1>3. /\ \A n : NumberId(services, n) = NoId <=> Numbered(services, n) = {}
      /\ \A n : NumberId(services', n) = NoId <=> Numbered(services', n) = {}
  BY <1>1, NumberedFacts DEF NumberId
<1>4. \A s \in Ids(services) : s # NoId
  <2>1. Ids(services) \subseteq Nat \ {0}
    BY <1>1, RowsOfTable
  <2> QED
    BY <2>1 DEF NoId
<1>5. ASSUME NEW x \in network
      PROVE  DeviceFits(x, services', devices) /\ Numbered(services', x.number) # {}
  <2>1. /\ DeviceFits(x, services, devices)
        /\ \/ Numbered(services, x.number) # {}
           \/ \E y \in items : y.id = NoId /\ y.number = x.number
    BY DEF NetworkFits
  <2>2. Numbered(services', x.number) # {}
    BY <1>2, <1>3, <2>1
  <2>3. x.id # NoId => NumberId(services, x.number) # NoId
    BY <1>1, <1>4, <2>1 DEF DeviceFits
  <2>4. DeviceFits(x, services', devices)
    BY <1>2, <2>1, <2>3 DEF DeviceFits
  <2> QED
    BY <2>2, <2>4
<1> QED
  BY <1>5 DEF NetworkFits

-----------------------------------------------------------------------------
(* Every step keeps what is foreseen. *)

LEMMA ForeseenInit == Init => Foreseen
<1> SUFFICES ASSUME Init
             PROVE  Foreseen
  OBVIOUS
<1>1. batch.staged = <<>> /\ batch.rows = <<>> /\ sets = NoSets
  BY DEF Init, NoBatch
<1>2. StagedAs(<<>>, <<>>, services, devices)
  BY DEF StagedAs, Ids
<1>3. Waiting(sets, "business") = {} /\ Waiting(sets, "network") = {}
  BY <1>1, DomainIs DEF Waiting, NoSets, NoSet, Pending
<1> QED
  BY <1>1, <1>2, <1>3, NothingWaits DEF Foreseen

LEMMA FrameForesees ==
  ASSUME Foreseen, UNCHANGED ledger, batch' = batch, sets' = sets, fresh' => fresh
  PROVE  Foreseen'
<1>1. services' = services /\ devices' = devices
  BY DEF ledger
<1> QED
  BY <1>1 DEF Foreseen

LEMMA BeginForesees ==
  ASSUME IInv, IInv', NEW sheet, NEW from, Begin(sheet, from)
  PROVE  Foreseen'
<1>1. /\ services' = services /\ devices' = devices /\ sets' = NoSets
      /\ batch'.rows = sheet /\ batch'.staged = Validate(sheet)
  BY DEF Begin, ledger
<1>2. Sheet(sheet)
  BY <1>1 DEF IInv, RowsOK
<1>3. StagedAs(batch'.staged, batch'.rows, services', devices')
  BY <1>1, <1>2, ValidateIsStagedAs DEF IInv, Types
<1>4. Waiting(sets', "business") = {} /\ Waiting(sets', "network") = {}
  BY <1>1, DomainIs DEF Waiting, NoSets, NoSet, Pending
<1> QED
  BY <1>3, <1>4, NothingWaits DEF Foreseen

LEMMA CorrectForesees ==
  ASSUME IInv, IInv', Foreseen, Correct
  PROVE  Foreseen'
<1>1. services' = services /\ devices' = devices /\ sets' = sets
  BY DEF Correct, ledger
<1>2. PICK sheet : batch'.rows = sheet /\ batch'.staged = Validate(sheet)
  <2>1. batch \in [status : BatchStatus, rows : Seq(Row), staged : Seq(StagedRow),
                   from : Snapshots]
    BY DEF IInv, Types
  <2>2. \A sheet : /\ [batch EXCEPT !.rows = sheet, !.staged = Validate(sheet)].rows = sheet
                   /\ [batch EXCEPT !.rows = sheet, !.staged = Validate(sheet)].staged
                         = Validate(sheet)
    BY <2>1
  <2> QED
    BY <2>2 DEF Correct
<1>3. StagedAs(batch'.staged, batch'.rows, services', devices')
  <2>1. Sheet(sheet)
    BY <1>2 DEF IInv, RowsOK
  <2> QED
    BY <1>1, <1>2, <2>1, ValidateIsStagedAs DEF IInv, Types
<1>4. CASE fresh
  BY <1>1, <1>3, <1>4 DEF Foreseen
<1>5. CASE \A d \in Domain : sets[d].status \notin Pending
  <2>1. Waiting(sets', "business") = {} /\ Waiting(sets', "network") = {}
    BY <1>1, <1>5, DomainIs DEF Waiting
  <2> QED
    BY <1>3, <2>1, NothingWaits DEF Foreseen
<1>6. fresh' = (fresh \/ \A d \in Domain : sets[d].status \notin Pending)
  BY DEF Correct
<1>7. CASE ~fresh'
  BY <1>7 DEF Foreseen
<1> QED
  BY <1>4, <1>5, <1>6, <1>7

(* What is submitted, waits. *)
LEMMA SubmittedWaits ==
  ASSUME Submit
  PROVE  /\ Waiting(sets', "business") = BusinessItems(batch.staged)
         /\ Waiting(sets', "network") = DeviceItems(batch.staged)
         /\ \A d \in Domain : sets'[d].status \in {"none", "submitted"}
<1> DEFINE staged == batch.staged
<1>1. sets' = [d \in Domain |->
            IF ItemsOf(staged)[d] = {} THEN NoSet
            ELSE [status |-> "submitted", items |-> ItemsOf(staged)[d]]]
  BY DEF Submit
<1>2. /\ ItemsOf(staged)["business"] = BusinessItems(staged)
      /\ ItemsOf(staged)["network"] = DeviceItems(staged)
  BY DEF ItemsOf, Domain
<1>3. ASSUME NEW d \in Domain
      PROVE  /\ Waiting(sets', d) = ItemsOf(staged)[d]
             /\ sets'[d].status \in {"none", "submitted"}
  <2> DEFINE its == ItemsOf(staged)[d]
  <2>1. sets'[d] = IF its = {} THEN NoSet ELSE [status |-> "submitted", items |-> its]
    BY <1>1
  <2> HIDE DEF its
  <2>2. CASE its = {}
    <3>1. sets'[d].status = "none"
      BY <2>1, <2>2 DEF NoSet
    <3> QED
      BY <2>2, <3>1 DEF Waiting, Pending, its
  <2>3. CASE its # {}
    <3>1. sets'[d].status = "submitted" /\ sets'[d].items = its
      BY <2>1, <2>3
    <3> QED
      BY <3>1 DEF Waiting, Pending, its
  <2> QED
    BY <2>2, <2>3
<1> QED
  BY <1>2, <1>3, DomainIs

LEMMA SubmitForesees ==
  ASSUME IInv, Foreseen, Submit
  PROVE  Foreseen'
<1> SUFFICES ASSUME fresh'
             PROVE  Foreseen'
  BY DEF Foreseen
<1>1. /\ services' = services /\ devices' = devices
      /\ fresh /\ (\A d \in Domain : sets[d].status # "applied")
      /\ Clean(batch.staged)
  BY DEF Submit, ledger
<1>2. /\ batch.staged \in Seq(StagedRow) /\ Matched(batch.staged) /\ Keyed(services, devices)
  BY DEF IInv, Types, RowsOK
<1>3. batch'.staged = batch.staged /\ batch'.rows = batch.rows
  <2>1. batch \in [status : BatchStatus, rows : Seq(Row), staged : Seq(StagedRow),
                   from : Snapshots]
    BY DEF IInv, Types
  <2>2. batch' = [batch EXCEPT !.status = "reviewing"]
    BY DEF Submit
  <2> QED
    BY <2>1, <2>2
<1>4. StagedAs(batch.staged, batch.rows, services, devices)
  BY <1>1 DEF Foreseen
<1>5. /\ BusinessFits(BusinessItems(batch.staged), services)
      /\ NetworkFits(DeviceItems(batch.staged), BusinessItems(batch.staged), services, devices)
  BY <1>1, <1>2, <1>4, ItemsFit
<1> QED
  BY <1>1, <1>3, <1>4, <1>5, SubmittedWaits DEF Foreseen

LEMMA DecideForesees ==
  ASSUME IInv, Foreseen, NEW d \in Domain, Decide(d)
  PROVE  Foreseen'
<1> SUFFICES ASSUME fresh'
             PROVE  Foreseen'
  BY DEF Foreseen
<1>1. /\ sets \in [Domain -> [status : SetStatus, items : SUBSET Item]]
      /\ batch \in [status : BatchStatus, rows : Seq(Row), staged : Seq(StagedRow),
                    from : Snapshots]
  BY DEF IInv, Types
<1>2. PICK decision \in {"approved", "returned", "rejected"} :
         /\ sets' = Restatused(sets, d, decision)
         /\ batch' = [batch EXCEPT !.status = BatchAfter(decision)]
  BY DEF Decide, Restatused
<1>3. /\ services' = services /\ devices' = devices /\ fresh
      /\ sets[d].status = "submitted"
  BY DEF Decide, ledger
<1>4. batch'.staged = batch.staged /\ batch'.rows = batch.rows
  BY <1>1, <1>2
<1>5. decision \in SetStatus
  BY DEF SetStatus
<1>6. /\ sets'[d].status = decision /\ \A o \in Domain \ {d} : sets'[o] = sets[o]
      /\ Waiting(sets', d) = IF decision = "approved" THEN Waiting(sets, d) ELSE {}
      /\ \A o \in Domain \ {d} : Waiting(sets', o) = Waiting(sets, o)
  <2>1. Waiting(sets, d) = sets[d].items
    BY <1>3 DEF Waiting, Pending
  <2>2. Waiting(sets', d) = IF decision \in Pending THEN sets[d].items ELSE {}
    BY <1>1, <1>2, <1>5, WaitingRestatused
  <2>3. decision \in Pending <=> decision = "approved"
    BY DEF Pending
  <2>4. \A o \in Domain \ {d} : Waiting(sets', o) = Waiting(sets, o)
    BY <1>1, <1>2, <1>5, WaitingRestatused
  <2>5. /\ sets'[d].status = decision /\ \A o \in Domain \ {d} : sets'[o] = sets[o]
    BY <1>1, <1>2, <1>5, SetRestatused
  <2> QED
    BY <2>1, <2>2, <2>3, <2>4, <2>5
<1>7. (\A o \in Domain : sets'[o].status # "applied") =>
         StagedAs(batch'.staged, batch'.rows, services', devices')
  <2>1. (\A o \in Domain : sets'[o].status # "applied") =>
           \A o \in Domain : sets[o].status # "applied"
    BY <1>3, <1>6
  <2> QED
    BY <1>3, <1>4, <2>1 DEF Foreseen
<1>8. BusinessFits(Waiting(sets', "business"), services')
  <2>1. Waiting(sets', "business") \in {Waiting(sets, "business"), {}}
    BY <1>6, DomainIs
  <2> QED
    BY <1>3, <2>1, NothingWaits DEF Foreseen
<1>9. ASSUME sets'["business"].status \in Undecided
      PROVE  NetworkFits(Waiting(sets', "network"), Waiting(sets', "business"),
                         services', devices')
  <2>1. /\ Waiting(sets', "business") = Waiting(sets, "business")
        /\ sets["business"].status \in Undecided
    <3>1. CASE d = "business"
      <4>1. decision = "approved"
        BY <1>6, <1>9, <3>1 DEF Undecided
      <4> QED
        BY <1>3, <1>6, <3>1, <4>1 DEF Undecided
    <3>2. CASE d # "business"
      BY <1>6, <1>9, <3>2, DomainIs
    <3> QED
      BY <3>1, <3>2
  <2>2. Waiting(sets', "network") \in {Waiting(sets, "network"), {}}
    BY <1>6, DomainIs
  <2>3. CASE Waiting(sets', "network") = {}
    BY <2>3, NothingWaits
  <2>4. CASE Waiting(sets', "network") = Waiting(sets, "network")
    BY <1>3, <2>1, <2>4 DEF Foreseen
  <2> QED
    BY <2>2, <2>3, <2>4
<1> QED
  BY <1>7, <1>8, <1>9 DEF Foreseen

LEMMA ApplyForesees ==
  ASSUME IInv, IInv', Foreseen, NEW d \in Domain, Apply(d)
  PROVE  Foreseen'
<1> SUFFICES ASSUME fresh'
             PROVE  Foreseen'
  BY DEF Foreseen
<1>1. sets \in [Domain -> [status : SetStatus, items : SUBSET Item]]
  BY DEF IInv, Types
<1>2. /\ sets' = Restatused(sets, d, "applied") /\ "applied" \in SetStatus
      /\ fresh /\ sets[d].status = "approved" /\ "applied" \notin Pending
  BY DEF Apply, Restatused, SetStatus, Pending
<1>3. /\ sets'[d].status = "applied" /\ Waiting(sets', d) = {}
      /\ Waiting(sets, d) = sets[d].items
      /\ \A o \in Domain \ {d} : sets'[o] = sets[o] /\ Waiting(sets', o) = Waiting(sets, o)
  <2>1. Waiting(sets', d) = {}
    BY <1>1, <1>2, WaitingRestatused
  <2>2. \A o \in Domain \ {d} : Waiting(sets', o) = Waiting(sets, o)
    BY <1>1, <1>2, WaitingRestatused
  <2>3. sets'[d].status = "applied" /\ \A o \in Domain \ {d} : sets'[o] = sets[o]
    BY <1>1, <1>2, SetRestatused
  <2>4. Waiting(sets, d) = sets[d].items
    BY <1>2 DEF Waiting, Pending
  <2> QED
    BY <2>1, <2>2, <2>3, <2>4
<1>4. CASE d = "business"
  <2> DEFINE items == sets["business"].items
  <2>1. /\ Keyed(services, devices)
        /\ items \in SUBSET BusinessItem /\ IsFiniteSet(items)
        /\ Distinct(items) /\ NumbersDistinct(items)
        /\ services' \in Seq(ServiceRow) /\ NumbersUnique(services')
    BY DEF IInv, Types, ItemsOK, Keyed
  <2>2. /\ \A x \in items : BusinessApplies(x)
        /\ ApplyBusiness(items) /\ devices' = devices
    BY <1>4 DEF Apply, Applicable
  <2>3. sets["business"].status \in Undecided
    BY <1>2, <1>4 DEF Undecided
  <2>4. NetworkFits(Waiting(sets, "network"), items, services, devices)
    BY <1>2, <1>3, <1>4, <2>3 DEF Foreseen
  <2> HIDE DEF items
  <2>5. NetworkFits(Waiting(sets, "network"), {}, services', devices)
    BY <2>1, <2>2, <2>4, FitsAfterBusiness
  <2>6. Waiting(sets', "network") = Waiting(sets, "network") /\ Waiting(sets', "business") = {}
    BY <1>3, <1>4, DomainIs
  <2> QED
    BY <1>3, <2>2, <2>5, <2>6, NothingWaits DEF Foreseen
<1>5. CASE d = "network"
  <2>1. services' = services
    BY <1>5 DEF Apply
  <2>2. Waiting(sets', "business") = Waiting(sets, "business") /\ Waiting(sets', "network") = {}
    BY <1>3, <1>5, DomainIs
  <2> QED
    BY <1>2, <1>3, <2>1, <2>2, NothingWaits DEF Foreseen
<1> QED
  BY <1>4, <1>5, DomainIs

LEMMA StepForesees == IInv /\ IInv' /\ Foreseen /\ [Next]_vars => Foreseen'
<1> SUFFICES ASSUME IInv, IInv', Foreseen, [Next]_vars
             PROVE  Foreseen'
  OBVIOUS
<1>1. CASE ExportLedger
  BY <1>1, FrameForesees DEF ExportLedger
<1>2. CASE Upload
  BY <1>2, BeginForesees DEF Upload
<1>3. CASE Correct
  BY <1>3, CorrectForesees
<1>4. CASE Submit
  BY <1>4, SubmitForesees
<1>5. ASSUME NEW d \in Domain, Decide(d)
      PROVE  Foreseen'
  BY <1>5, DecideForesees
<1>6. ASSUME NEW d \in Domain, Apply(d)
      PROVE  Foreseen'
  BY <1>6, ApplyForesees
<1>7. CASE CreateService \/ EditService \/ EditDevice
  <2>1. fresh' = FALSE
    BY <1>7 DEF CreateService, EditService, EditDevice, Edits
  <2> QED
    BY <2>1 DEF Foreseen
<1>8. CASE UNCHANGED vars
  BY <1>8, FrameForesees DEF vars
<1> QED
  BY <1>1, <1>2, <1>3, <1>4, <1>5, <1>6, <1>7, <1>8 DEF Next

LEMMA ForeseenAlways == Spec => []Foreseen
BY InvAlways, ForeseenInit, StepForesees, PTL DEF Spec

LEMMA ForeseenApplies ==
  ASSUME IInv, Foreseen
  PROVE  CleanBatchApplies
<1> SUFFICES ASSUME fresh
             PROVE  CleanBatchApplies
  BY DEF CleanBatchApplies
<1>1. ASSUME sets["business"].status = "approved", Readable("business")
      PROVE  Applicable("business")
  <2>1. Waiting(sets, "business") = sets["business"].items
    BY <1>1 DEF Waiting, Pending
  <2>2. \A x \in sets["business"].items : x.manager \notin Unreadable
    BY <1>1 DEF Readable
  <2>3. \A x \in sets["business"].items : BusinessApplies(x)
    BY <2>1, <2>2 DEF Foreseen, BusinessFits, BusinessApplies
  <2> QED
    BY <2>3 DEF Applicable
<1>2. ASSUME sets["network"].status = "approved",
             sets["business"].status \in {"none", "applied"}, Readable("network")
      PROVE  Applicable("network")
  <2>1. /\ Waiting(sets, "network") = sets["network"].items
        /\ Waiting(sets, "business") = {}
        /\ sets["business"].status \in Undecided
    BY <1>2 DEF Waiting, Pending, Undecided
  <2>2. NetworkFits(sets["network"].items, {}, services, devices)
    BY <2>1 DEF Foreseen
  <2>4. \A x \in sets["network"].items : x.recovery \notin Unreadable
    BY <1>2 DEF Readable
  <2>3. \A x \in sets["network"].items : DeviceApplies(x)
    BY <2>2, <2>4 DEF NetworkFits, DeviceFits, DeviceApplies, NumberId
  <2> QED
    BY <2>3 DEF Applicable
<1> QED
  BY <1>1, <1>2 DEF CleanBatchApplies

(* Nothing that validation let through is refused when it is applied,      *)
(* business set first, unless somebody else changed the ledger: the rows   *)
(* were matched with the tables as they are, and applying the business set *)
(* only adds the services the network set still waits for.  All that can   *)
(* still be refused is a price or a date that cannot be read.              *)
THEOREM CleanApplies == Spec => []CleanBatchApplies
<1>1. IInv /\ Foreseen => CleanBatchApplies
  BY ForeseenApplies
<1> QED
  BY <1>1, InvAlways, ForeseenAlways, PTL

-----------------------------------------------------------------------------
(* The sheet has its way: what a row says of its service and its devices   *)
(* is what the tables say, or what an item will still make of them.        *)

ServiceSaid(r, items, S) ==
    /\ \A y \in items : y.number = r.number =>
          y.id = NumberId(S, r.number) /\ y.manager = r.manager
    /\ \A y \in items : y.id # NoId /\ y.id = NumberId(S, r.number) => y.number = r.number
    /\ \/ NumberId(S, r.number) # NoId /\ S[NumberId(S, r.number)].manager = Stored[r.manager]
       \/ \E y \in items : y.number = r.number

DeviceIs(device, r) ==
    /\ device.recovery = Stored[r.recovery]
    /\ r.keeper # Blank => device.keeper = r.keeper

DeviceSaid(r, c, items, S, D) ==
    /\ \A y \in items : y.code = c =>
          /\ y.id = CodeId(D, c) /\ y.number = r.number
          /\ y.keeper = r.keeper /\ y.recovery = r.recovery
    /\ \A y \in items : y.id # NoId /\ y.id = CodeId(D, c) => y.code = c
    /\ CodeId(D, c) # NoId => D[CodeId(D, c)].service = NumberId(S, r.number)
    /\ \/ CodeId(D, c) # NoId /\ DeviceIs(D[CodeId(D, c)], r)
       \/ \E y \in items : y.code = c

SheetSaid(rows, business, network, S, D) == \A i \in Ids(rows) :
    /\ Sound(rows, i)
    /\ ServiceSaid(rows[i], business, S)
    /\ \A c \in rows[i].codes : DeviceSaid(rows[i], c, network, S, D)

LEMMA SameGroups ==
  ASSUME NEW rows, NEW others, Ids(others) = Ids(rows),
         \A i \in Ids(rows) : others[i].number = rows[i].number
  PROVE  \A n : Group(others, n) = Group(rows, n)
BY DEF Group

LEMMA LedBy ==
  ASSUME NEW staged \in Seq(StagedRow), NEW rows, StagedAs(staged, rows, services, devices),
         NEW i \in Ids(rows), Sound(rows, i),
         NEW j \in Ids(staged), Leads(staged, j), staged[j].number = staged[i].number
  PROVE  staged[j].id = staged[i].id /\ staged[j].manager = rows[i].manager
<1>1. /\ Ids(staged) = Ids(rows)
      /\ \A k \in Ids(rows) : RowStagedAs(staged[k], rows[k], services, devices)
  BY DEF StagedAs
<1>2. \A k \in Ids(rows) : /\ staged[k].number = rows[k].number
                           /\ staged[k].manager = rows[k].manager
                           /\ staged[k].id = NumberId(services, rows[k].number)
  BY <1>1 DEF RowStagedAs
<1>3. Group(staged, rows[i].number) = Group(rows, rows[i].number)
  BY <1>1, <1>2, SameGroups
<1>4. j = First(Group(rows, rows[i].number))
  BY <1>2, <1>3 DEF Leads
<1>5. rows[j].manager = rows[i].manager
  BY <1>4 DEF Sound, Conflicts
<1> QED
  BY <1>1, <1>2, <1>5

LEMMA ItemsSayServices ==
  ASSUME Keyed(services, devices), NEW staged \in Seq(StagedRow), Clean(staged),
         NEW rows, StagedAs(staged, rows, services, devices), NEW i \in Ids(rows)
  PROVE  Sound(rows, i) /\ ServiceSaid(rows[i], BusinessItems(staged), services)
<1> DEFINE r == rows[i]
<1>1. /\ services \in Seq(ServiceRow) /\ NumbersUnique(services)
  BY DEF Keyed
<1>2. /\ Ids(staged) = Ids(rows) /\ Sound(rows, i)
      /\ \A k \in Ids(rows) : RowStagedAs(staged[k], rows[k], services, devices)
  BY DEF StagedAs, Clean
<1>3. \A k \in Ids(rows) : /\ staged[k].number = rows[k].number
                           /\ staged[k].id = NumberId(services, staged[k].number)
  BY <1>2 DEF RowStagedAs
<1>4. \A row : /\ BusinessOf(row).id = row.id /\ BusinessOf(row).number = row.number
               /\ BusinessOf(row).manager = row.manager
  BY DEF BusinessOf
<1>5. ASSUME NEW y \in BusinessItems(staged)
      PROVE  /\ y.number = r.number => y.id = NumberId(services, r.number)
                                       /\ y.manager = r.manager
             /\ y.id = NumberId(services, y.number)
  <2>1. PICK j \in Ids(staged) : Leads(staged, j) /\ y = BusinessOf(staged[j])
    BY BusinessItemsFrom
  <2>2. /\ y.id = staged[j].id /\ y.number = staged[j].number
        /\ y.manager = staged[j].manager
    BY <1>4, <2>1
  <2>3. y.id = NumberId(services, y.number)
    BY <1>2, <1>3, <2>2
  <2>4. ASSUME y.number = r.number
        PROVE  y.manager = r.manager
    <3>1. staged[j].number = staged[i].number
      BY <1>3, <2>2, <2>4
    <3> QED
      BY <1>2, <2>1, <2>2, <3>1, LedBy
  <2> QED
    BY <2>3, <2>4
<1>6. ASSUME NEW y \in BusinessItems(staged), y.id # NoId, y.id = NumberId(services, r.number)
      PROVE  y.number = r.number
  <2>1. y.id = NumberId(services, y.number)
    BY <1>5
  <2>2. services[y.id].number = y.number
    BY <1>1, <1>6, <2>1, NumberedFacts DEF NumberId
  <2>3. services[y.id].number = r.number
    BY <1>1, <1>6, NumberedFacts DEF NumberId
  <2> QED
    BY <2>2, <2>3
<1>7. \/ NumberId(services, r.number) # NoId
         /\ services[NumberId(services, r.number)].manager = Stored[r.manager]
      \/ \E y \in BusinessItems(staged) : y.number = r.number
  <2> DEFINE j == First(Group(staged, staged[i].number))
  <2>1. j \in Ids(staged) /\ staged[j].number = staged[i].number /\ Leads(staged, j)
    BY <1>2, GroupsHaveLeaders
  <2> HIDE DEF j
  <2>2. staged[j].id = staged[i].id /\ staged[j].manager = r.manager
    BY <1>2, <2>1, LedBy
  <2>3. staged[j].id = NumberId(services, r.number) /\ staged[j].number = r.number
    BY <1>2, <1>3, <2>1, <2>2
  <2>4. CASE BusinessChanged(staged[j])
    <3>1. BusinessOf(staged[j]) \in BusinessItems(staged)
      BY <2>1, <2>4, BusinessItemsFrom
    <3> QED
      BY <1>4, <2>3, <3>1
  <2>5. CASE ~BusinessChanged(staged[j])
    <3> DEFINE s == NumberId(services, r.number)
    <3>1. s # NoId /\ services[s].manager = r.manager
      BY <2>2, <2>3, <2>5 DEF BusinessChanged
    <3>2. s \in Ids(services)
      BY <1>1, <3>1, NumberedFacts DEF NumberId
    <3>3. services[s] \in ServiceRow
      BY <1>1, <3>2, RowsOfTable
    <3>4. services[s].manager \in Held
      BY <3>3 DEF ServiceRow
    <3> QED
      BY <3>1, <3>4, TextsAre
  <2> QED
    BY <2>4, <2>5
<1> QED
  BY <1>2, <1>5, <1>6, <1>7 DEF ServiceSaid

LEMMA ItemsSayDevices ==
  ASSUME Keyed(services, devices), NEW staged \in Seq(StagedRow), Matched(staged),
         Clean(staged), NEW rows, StagedAs(staged, rows, services, devices),
         NEW i \in Ids(rows), NEW c \in rows[i].codes
  PROVE  DeviceSaid(rows[i], c, DeviceItems(staged), services, devices)
<1> DEFINE r == rows[i]
<1>1. /\ devices \in Seq(DeviceRow) /\ CodesUnique(devices)
  BY DEF Keyed
<1>2. /\ Ids(staged) = Ids(rows)
      /\ \A k \in Ids(rows) : /\ ~staged[k].error /\ Owned(staged[k], devices)
                              /\ RowStagedAs(staged[k], rows[k], services, devices)
  BY DEF StagedAs, Clean
<1>3. \A k \in Ids(rows) :
         /\ staged[k].number = rows[k].number
         /\ staged[k].id = NumberId(services, rows[k].number)
         /\ \A x \in staged[k].devices : DeviceStagedAs(x, rows[k], devices)
  BY <1>2 DEF RowStagedAs
<1>4. PICK x \in staged[i].devices : x.code = c
  BY <1>2 DEF RowStagedAs
<1>5. /\ x.keeper = r.keeper /\ x.recovery = r.recovery
      /\ x.id = CodeId(devices, c)
  BY <1>3, <1>4 DEF DeviceStagedAs
<1>6. \A row, data : LET y == NetworkOf(row, data) IN
         /\ y.id = data.id /\ y.code = data.code /\ y.keeper = data.keeper
         /\ y.recovery = data.recovery /\ y.number = row.number
  BY DEF NetworkOf
<1>7. ASSUME NEW y \in DeviceItems(staged)
      PROVE  /\ y.id = CodeId(devices, y.code)
             /\ y.code = c => /\ y.number = r.number
                              /\ y.keeper = r.keeper /\ y.recovery = r.recovery
  <2>1. PICK j \in Ids(staged) : \E data \in staged[j].devices : y = NetworkOf(staged[j], data)
    BY DeviceItemsFrom
  <2>2. PICK data \in staged[j].devices : y = NetworkOf(staged[j], data)
    BY <2>1
  <2>3. /\ y.id = data.id /\ y.code = data.code /\ y.keeper = data.keeper
        /\ y.recovery = data.recovery /\ y.number = staged[j].number
    BY <1>6, <2>2
  <2>4. y.id = CodeId(devices, y.code)
    BY <1>2, <1>3, <2>3 DEF DeviceStagedAs
  <2>5. ASSUME y.code = c
        PROVE  y.number = r.number /\ y.keeper = r.keeper /\ y.recovery = r.recovery
    <3>1. i = j /\ x = data
      <4>1. i \in Ids(staged) /\ ~staged[i].error /\ ~staged[j].error
        BY <1>2
      <4>2. \A a \in staged[i].devices : \A b \in staged[j].devices :
               a.code = b.code => i = j /\ a = b
        BY <4>1 DEF Matched
      <4>3. x.code = data.code
        BY <1>4, <2>3, <2>5
      <4> QED
        BY <2>2, <4>2, <4>3
    <3> QED
      BY <1>3, <1>5, <2>3, <3>1
  <2> QED
    BY <2>4, <2>5
<1>8. ASSUME NEW y \in DeviceItems(staged), y.id # NoId, y.id = CodeId(devices, c)
      PROVE  y.code = c
  <2>1. devices[y.id].code = y.code
    <3>1. y.id = CodeId(devices, y.code)
      BY <1>7
    <3> QED
      BY <1>1, <1>8, <3>1, CodedFacts DEF CodeId
  <2>2. devices[y.id].code = c
    BY <1>1, <1>8, CodedFacts DEF CodeId
  <2> QED
    BY <2>1, <2>2
<1>9. CodeId(devices, c) # NoId =>
         devices[CodeId(devices, c)].service = NumberId(services, r.number)
  BY <1>2, <1>3, <1>4, <1>5 DEF Owned
<1>10. \/ CodeId(devices, c) # NoId /\ DeviceIs(devices[CodeId(devices, c)], r)
       \/ \E y \in DeviceItems(staged) : y.code = c
  <2>1. CASE DeviceChanged(x)
    <3>1. NetworkOf(staged[i], x) \in DeviceItems(staged)
      BY <1>2, <1>4, <2>1, DeviceItemsFrom
    <3> QED
      BY <1>4, <1>6, <3>1
  <2>2. CASE ~DeviceChanged(x)
    <3> DEFINE d == CodeId(devices, c)
    <3>1. /\ d # NoId /\ devices[d].recovery = r.recovery
          /\ r.keeper # Blank => devices[d].keeper = r.keeper
      BY <1>5, <2>2 DEF DeviceChanged
    <3>2. d \in Ids(devices)
      BY <1>1, <3>1, CodedFacts DEF CodeId
    <3>3. devices[d] \in DeviceRow
      BY <1>1, <3>2, RowsOfTable
    <3>4. devices[d].recovery \in Held
      BY <3>3 DEF DeviceRow
    <3>5. Stored[r.recovery] = r.recovery
      BY <3>1, <3>4, TextsAre
    <3> QED
      BY <3>1, <3>5 DEF DeviceIs
  <2> QED
    BY <2>1, <2>2
<1> QED
  BY <1>7, <1>8, <1>9, <1>10 DEF DeviceSaid

(* What the devices become, told by their codes. *)
LEMMA NetworkTakesEffect ==
  ASSUME Keyed(services, devices),
         NEW items \in SUBSET DeviceItem, IsFiniteSet(items),
         Distinct(items), CodesDistinct(items),
         \A x \in items : DeviceApplies(x), ApplyDevices(items)
  PROVE  /\ \A c : CodeId(devices, c) # NoId => CodeId(devices', c) = CodeId(devices, c)
         /\ \A d \in Ids(devices) : /\ devices'[d].service = devices[d].service
                                    /\ devices'[d] = devices[d] \/ \E x \in items : x.id = d
         /\ \A d \in Ids(devices) : \A x \in items : x.id = d =>
               devices'[d].keeper = x.keeper /\ devices'[d].recovery = Stored[x.recovery]
         /\ \A x \in items : x.id = NoId =>
               LET d == CodeId(devices', x.code) IN
               /\ d # NoId /\ devices'[d].service = NumberId(services, x.number)
               /\ devices'[d].keeper = x.keeper /\ devices'[d].recovery = Stored[x.recovery]
<1>1. devices \in Seq(DeviceRow) /\ CodesUnique(devices)
  BY DEF Keyed
<1>2. /\ devices' \in Seq(DeviceRow) /\ CodesUnique(devices')
      /\ Ids(devices) \subseteq Ids(devices')
      /\ \A d \in Ids(devices) :
            (\A x \in items : x.id # d) => devices'[d] = devices[d]
      /\ \A d \in Ids(devices) : \A x \in items : x.id = d =>
            /\ devices'[d].code = devices[d].code
            /\ devices'[d].service = devices[d].service
            /\ devices'[d].keeper = x.keeper
            /\ devices'[d].recovery = Stored[x.recovery]
      /\ \A x \in items : x.id = NoId =>
            \E d \in Ids(devices') : devices'[d] = Written(x, 1)
  BY NetworkWritten
<1>3. ASSUME NEW d \in Ids(devices)
      PROVE  /\ devices'[d].code = devices[d].code
             /\ devices'[d].service = devices[d].service
             /\ devices'[d] = devices[d] \/ \E x \in items : x.id = d
  BY <1>2
<1>4. ASSUME NEW c, CodeId(devices, c) # NoId
      PROVE  CodeId(devices', c) = CodeId(devices, c)
  <2> DEFINE d == CodeId(devices, c)
  <2>1. d \in Ids(devices) /\ devices[d].code = c
    BY <1>1, <1>4, CodedFacts DEF CodeId
  <2> HIDE DEF d
  <2>2. d \in Ids(devices') /\ devices'[d].code = c
    BY <1>2, <1>3, <2>1
  <2>3. IdIn(Coded(devices', devices'[d].code)) = d
    BY <1>2, <2>2, CodedFacts
  <2> QED
    BY <2>2, <2>3 DEF d, CodeId
<1>5. ASSUME NEW x \in items, x.id = NoId
      PROVE  LET d == CodeId(devices', x.code) IN
             /\ d # NoId /\ devices'[d].service = NumberId(services, x.number)
             /\ devices'[d].keeper = x.keeper /\ devices'[d].recovery = Stored[x.recovery]
  <2>1. PICK d \in Ids(devices') : devices'[d] = Written(x, 1)
    BY <1>2, <1>5
  <2>2. /\ devices'[d].code = x.code
        /\ devices'[d].service = IdIn(Numbered(services, x.number))
        /\ devices'[d].keeper = x.keeper /\ devices'[d].recovery = Stored[x.recovery]
    BY <2>1 DEF Written
  <2>3. IdIn(Coded(devices', devices'[d].code)) = d
    BY <1>2, CodedFacts
  <2>4. d # NoId
    <3>1. Ids(devices') \subseteq Nat \ {0}
      BY <1>2, RowsOfTable
    <3> QED
      BY <3>1 DEF NoId
  <2> QED
    BY <2>2, <2>3, <2>4 DEF NumberId, CodeId
<1> QED
  BY <1>2, <1>3, <1>4, <1>5

LEMMA SaidAfterBusiness ==
  ASSUME Keyed(services, devices),
         NEW items \in SUBSET BusinessItem, IsFiniteSet(items),
         Distinct(items), NumbersDistinct(items),
         \A x \in items : BusinessApplies(x), ApplyBusiness(items),
         NEW rows, NEW network, SheetSaid(rows, items, network, services, devices)
  PROVE  SheetSaid(rows, {}, network, services', devices)
<1>1. /\ services \in Seq(ServiceRow) /\ NumbersUnique(services)
      /\ devices \in Seq(DeviceRow) /\ CodesUnique(devices)
      /\ \A d \in Ids(devices) : devices[d].service \in Ids(services)
  BY DEF Keyed
<1>2. /\ \A n : NumberId(services, n) # NoId => NumberId(services', n) = NumberId(services, n)
      /\ \A s \in Ids(services) : \/ services'[s].manager = services[s].manager
                                  \/ \E x \in items : x.id = s
      /\ \A s \in Ids(services) : \A x \in items :
            x.id = s => services'[s].manager = Stored[x.manager]
      /\ \A x \in items : x.id = NoId =>
            /\ NumberId(services', x.number) # NoId
            /\ services'[NumberId(services', x.number)].manager = Stored[x.manager]
  BY BusinessTakesEffect
<1>3. \A s \in Ids(services) : s # NoId
  <2>1. Ids(services) \subseteq Nat \ {0}
    BY <1>1, RowsOfTable
  <2> QED
    BY <2>1 DEF NoId
<1>4. ASSUME NEW r, ServiceSaid(r, items, services)
      PROVE  ServiceSaid(r, {}, services')
  <2> DEFINE s == NumberId(services, r.number)
             t == NumberId(services', r.number)
  <2>1. /\ \A y \in items : y.number = r.number => y.id = s /\ y.manager = r.manager
        /\ \A y \in items : y.id # NoId /\ y.id = s => y.number = r.number
        /\ (s # NoId /\ services[s].manager = Stored[r.manager]) \/ \E y \in items : y.number = r.number
    BY <1>4 DEF ServiceSaid
  <2>2. s # NoId => s \in Ids(services) /\ t = s
    BY <1>1, <1>2, NumberedFacts DEF NumberId
  <2> SUFFICES t # NoId /\ services'[t].manager = Stored[r.manager]
    BY DEF ServiceSaid
  <2> HIDE DEF s, t
  <2>3. CASE s = NoId
    <3>1. PICK y \in items : y.number = r.number
      BY <2>1, <2>3
    <3>2. y.id = NoId /\ y.manager = r.manager
      BY <2>1, <2>3, <3>1
    <3> QED
      BY <1>2, <3>1, <3>2 DEF t
  <2>4. CASE s # NoId
    <3>1. s \in Ids(services) /\ t = s
      BY <2>2, <2>4
    <3>2. CASE \E x \in items : x.id = s
      <4>1. PICK x \in items : x.id = s
        BY <3>2
      <4>2. x.manager = r.manager
        BY <2>1, <2>4, <4>1
      <4> QED
        BY <1>2, <2>4, <3>1, <4>1, <4>2
    <3>3. CASE \A x \in items : x.id # s
      <4>1. services'[s].manager = services[s].manager
        BY <1>2, <3>1, <3>3
      <4>2. services[s].manager = Stored[r.manager]
        BY <2>1, <3>3
      <4> QED
        BY <2>4, <3>1, <4>1, <4>2
    <3> QED
      BY <3>2, <3>3
  <2> QED
    BY <2>3, <2>4
<1>5. ASSUME NEW r, NEW c, DeviceSaid(r, c, network, services, devices)
      PROVE  DeviceSaid(r, c, network, services', devices)
  <2> DEFINE d == CodeId(devices, c)
  <2>1. d # NoId => NumberId(services', r.number) = NumberId(services, r.number)
    <3> SUFFICES ASSUME d # NoId
                 PROVE  NumberId(services', r.number) = NumberId(services, r.number)
      OBVIOUS
    <3>1. d \in Ids(devices)
      BY <1>1, CodedFacts DEF CodeId
    <3>2. NumberId(services, r.number) # NoId
      BY <1>1, <1>3, <1>5, <3>1 DEF DeviceSaid
    <3> QED
      BY <1>2, <3>2
  <2> HIDE DEF d
  <2> QED
    BY <1>5, <2>1 DEF DeviceSaid, d
<1> QED
  BY <1>4, <1>5 DEF SheetSaid

LEMMA SaidAfterNetwork ==
  ASSUME Keyed(services, devices),
         NEW items \in SUBSET DeviceItem, IsFiniteSet(items),
         Distinct(items), CodesDistinct(items),
         \A x \in items : DeviceApplies(x), ApplyDevices(items),
         NEW rows, NEW business, SheetSaid(rows, business, items, services, devices)
  PROVE  SheetSaid(rows, business, {}, services, devices')
<1>1. devices \in Seq(DeviceRow) /\ CodesUnique(devices)
  BY DEF Keyed
<1>2. /\ \A c : CodeId(devices, c) # NoId => CodeId(devices', c) = CodeId(devices, c)
      /\ \A d \in Ids(devices) : /\ devices'[d].service = devices[d].service
                                 /\ devices'[d] = devices[d] \/ \E x \in items : x.id = d
      /\ \A d \in Ids(devices) : \A x \in items : x.id = d =>
            devices'[d].keeper = x.keeper /\ devices'[d].recovery = Stored[x.recovery]
      /\ \A x \in items : x.id = NoId =>
            LET d == CodeId(devices', x.code) IN
            /\ d # NoId /\ devices'[d].service = NumberId(services, x.number)
            /\ devices'[d].keeper = x.keeper /\ devices'[d].recovery = Stored[x.recovery]
  BY NetworkTakesEffect
<1>3. ASSUME NEW r, NEW c, DeviceSaid(r, c, items, services, devices)
      PROVE  DeviceSaid(r, c, {}, services, devices')
  <2> DEFINE d == CodeId(devices, c)
             e == CodeId(devices', c)
  <2>1. /\ \A y \in items : y.code = c => /\ y.id = d /\ y.number = r.number
                                          /\ y.keeper = r.keeper /\ y.recovery = r.recovery
        /\ \A y \in items : y.id # NoId /\ y.id = d => y.code = c
        /\ d # NoId => devices[d].service = NumberId(services, r.number)
        /\ (d # NoId /\ DeviceIs(devices[d], r)) \/ \E y \in items : y.code = c
    BY <1>3 DEF DeviceSaid
  <2>2. d # NoId => d \in Ids(devices) /\ e = d
    BY <1>1, <1>2, CodedFacts DEF CodeId
  <2> SUFFICES /\ e # NoId /\ devices'[e].service = NumberId(services, r.number)
               /\ DeviceIs(devices'[e], r)
    BY DEF DeviceSaid
  <2>3. \A y \in items : y.code = c /\ y.id = NoId =>
           /\ e # NoId /\ devices'[e].service = NumberId(services, y.number)
           /\ devices'[e].keeper = y.keeper /\ devices'[e].recovery = Stored[y.recovery]
    BY <1>2
  <2> HIDE DEF d, e
  <2>4. CASE d = NoId
    <3>1. PICK y \in items : y.code = c
      BY <2>1, <2>4
    <3>2. /\ y.id = NoId /\ y.number = r.number
          /\ y.keeper = r.keeper /\ y.recovery = r.recovery
      BY <2>1, <2>4, <3>1
    <3> QED
      BY <2>3, <3>1, <3>2 DEF DeviceIs
  <2>5. CASE d # NoId
    <3>1. d \in Ids(devices) /\ e = d
      BY <2>2, <2>5
    <3>2. devices'[d].service = NumberId(services, r.number)
      BY <1>2, <2>1, <2>5, <3>1
    <3>3. CASE \E x \in items : x.id = d
      <4>1. PICK x \in items : x.id = d
        BY <3>3
      <4>2. x.keeper = r.keeper /\ x.recovery = r.recovery
        BY <2>1, <2>5, <4>1
      <4>3. devices'[d].keeper = r.keeper /\ devices'[d].recovery = Stored[r.recovery]
        BY <1>2, <3>1, <4>1, <4>2
      <4> QED
        BY <2>5, <3>1, <3>2, <4>3 DEF DeviceIs
    <3>4. CASE \A x \in items : x.id # d
      <4>1. devices'[d] = devices[d]
        BY <1>2, <3>1, <3>4
      <4>2. DeviceIs(devices[d], r)
        BY <2>1, <3>4
      <4> QED
        BY <2>5, <3>1, <3>2, <4>1, <4>2
    <3> QED
      BY <3>3, <3>4
  <2> QED
    BY <2>4, <2>5
<1> QED
  BY <1>3 DEF SheetSaid

(* Rows without their technical columns. *)
Bare(r) == [r EXCEPT !.sid = NoId, !.sver = 0, !.did = NoId, !.dver = 0]
Again(rows) == [i \in Ids(rows) |-> Bare(rows[i])]

LEMMA AgainIsASheet ==
  ASSUME NEW rows, Sheet(rows)
  PROVE  /\ Sheet(Again(rows)) /\ Ids(Again(rows)) = Ids(rows)
         /\ \A i \in Ids(rows) :
               /\ Again(rows)[i].number = rows[i].number
               /\ Again(rows)[i].manager = rows[i].manager
               /\ Again(rows)[i].codes = rows[i].codes
               /\ Again(rows)[i].keeper = rows[i].keeper
               /\ Again(rows)[i].recovery = rows[i].recovery
               /\ Again(rows)[i].sid = NoId /\ Again(rows)[i].sver = 0
               /\ Again(rows)[i].did = NoId /\ Again(rows)[i].dver = 0
         /\ \A i \in Ids(rows) : Sound(rows, i) => Sound(Again(rows), i)
<1>1. /\ rows \in Seq(Row) /\ Len(rows) \in Nat /\ Ids(rows) = 1..Len(rows)
      /\ \A i \in Ids(rows) : rows[i] \in Row
  BY RowsOfTable DEF Sheet
<1>2. \A r \in Row :
         /\ Bare(r) \in Row /\ Bare(r).number = r.number /\ Bare(r).manager = r.manager
         /\ Bare(r).codes = r.codes /\ Bare(r).keeper = r.keeper
         /\ Bare(r).recovery = r.recovery /\ Bare(r).sid = NoId /\ Bare(r).sver = 0
         /\ Bare(r).did = NoId /\ Bare(r).dver = 0
  BY DEF Row, NoId, Bare
<1>3. \A i \in Ids(rows) : Again(rows)[i] = Bare(rows[i])
  BY DEF Again
<1>4. ASSUME NEW i \in Ids(rows)
      PROVE  /\ Again(rows)[i] \in Row
             /\ Again(rows)[i].number = rows[i].number
             /\ Again(rows)[i].manager = rows[i].manager
             /\ Again(rows)[i].codes = rows[i].codes
             /\ Again(rows)[i].keeper = rows[i].keeper
             /\ Again(rows)[i].recovery = rows[i].recovery
             /\ Again(rows)[i].sid = NoId /\ Again(rows)[i].sver = 0
             /\ Again(rows)[i].did = NoId /\ Again(rows)[i].dver = 0
  BY <1>1, <1>2, <1>3
<1>5. Again(rows) \in [1..Len(rows) -> Row]
  <2>1. Again(rows) = [i \in 1..Len(rows) |-> Again(rows)[i]]
    BY <1>1 DEF Again
  <2> QED
    BY <1>1, <1>4, <2>1
<1>6. Again(rows) \in Seq(Row) /\ Len(Again(rows)) = Len(rows)
  BY <1>1, <1>5, SeqOfFunction
<1>7. Ids(Again(rows)) = Ids(rows)
  BY <1>6 DEF Ids
<1>8. Sheet(Again(rows))
  BY <1>4, <1>6, <1>7 DEF Sheet
<1>9. \A n : Group(Again(rows), n) = Group(rows, n)
  BY <1>4, <1>7, SameGroups
<1>10. \A c : Holders(Again(rows), c) = Holders(rows, c)
  BY <1>4, <1>7 DEF Holders
<1>11. ASSUME NEW i \in Ids(rows), Sound(rows, i)
       PROVE  Sound(Again(rows), i)
  <2> DEFINE j == First(Group(rows, rows[i].number))
  <2>1. /\ Ids(rows) \subseteq Nat /\ i \in Group(rows, rows[i].number)
        /\ Group(rows, rows[i].number) \subseteq Ids(rows)
    BY <1>1, RowsOfTable DEF Group
  <2>2. j \in Group(rows, rows[i].number)
    BY <2>1, FirstIsIn
  <2>3. j \in Ids(rows)
    BY <2>1, <2>2
  <2> HIDE DEF j
  <2>4. ~Conflicts(Again(rows), i)
    <3>1. First(Group(Again(rows), Again(rows)[i].number)) = j
      BY <1>4, <1>9 DEF j
    <3>2. rows[j].manager = rows[i].manager
      BY <1>11 DEF Sound, Conflicts, j
    <3> QED
      BY <1>4, <2>3, <3>1, <3>2 DEF Conflicts
  <2>5. ~LacksCode(Again(rows), i)
    <3> SUFFICES ASSUME LacksCode(Again(rows), i)
                 PROVE  LacksCode(rows, i)
      BY <1>11 DEF Sound
    <3>1. PICK k \in Group(rows, rows[i].number) : Again(rows)[k].codes # {}
      BY <1>4, <1>9 DEF LacksCode
    <3>2. k \in Ids(rows)
      BY <2>1, <3>1
    <3> QED
      BY <1>4, <3>1, <3>2 DEF LacksCode
  <2>6. ~RepeatsCode(Again(rows), i)
    BY <1>4, <1>10, <1>11 DEF Sound, RepeatsCode
  <2> QED
    BY <1>4, <1>11, <2>4, <2>5, <2>6 DEF Sound
<1> QED
  BY <1>4, <1>7, <1>8, <1>11

LEMMA SaidIsQuiet ==
  ASSUME Keyed(services, devices), NEW rows, Sheet(rows),
         SheetSaid(rows, {}, {}, services, devices),
         \A i \in Ids(rows) : {rows[i].manager, rows[i].recovery} \subseteq Held
  PROVE  Clean(Validate(Again(rows))) /\ Same(Validate(Again(rows)))
<1> DEFINE a == Again(rows)
           v == Validate(a)
<1>1. /\ Sheet(a) /\ Ids(a) = Ids(rows)
      /\ \A i \in Ids(rows) :
            /\ a[i].number = rows[i].number /\ a[i].manager = rows[i].manager
            /\ a[i].codes = rows[i].codes /\ a[i].keeper = rows[i].keeper
            /\ a[i].recovery = rows[i].recovery
            /\ a[i].sid = NoId /\ a[i].sver = 0 /\ a[i].did = NoId /\ a[i].dver = 0
      /\ \A i \in Ids(rows) : Sound(rows, i) => Sound(a, i)
  BY AgainIsASheet
<1> HIDE DEF a
<1>2. /\ v \in Seq(StagedRow) /\ Ids(v) = Ids(a) /\ Matched(v)
      /\ \A i \in Ids(a) : v[i] = Stage(a, i)
  BY <1>1, ValidateIsMatched
<1>3. StagedAs(v, a, services, devices)
  BY <1>1, ValidateIsStagedAs
<1>4. ASSUME NEW i \in Ids(rows)
      PROVE  /\ Sound(a, i)
             /\ NumberId(services, a[i].number) # NoId
             /\ services[NumberId(services, a[i].number)].manager = a[i].manager
             /\ \A c \in a[i].codes :
                   /\ CodeId(devices, c) # NoId
                   /\ devices[CodeId(devices, c)].service = NumberId(services, a[i].number)
                   /\ devices[CodeId(devices, c)].recovery = a[i].recovery
                   /\ a[i].keeper # Blank =>
                         devices[CodeId(devices, c)].keeper = a[i].keeper
  <2>1. /\ Sound(rows, i) /\ ServiceSaid(rows[i], {}, services)
        /\ \A c \in rows[i].codes : DeviceSaid(rows[i], c, {}, services, devices)
    BY DEF SheetSaid
  <2>3. /\ Stored[rows[i].recovery] = rows[i].recovery
        /\ Stored[rows[i].manager] = rows[i].manager
    BY TextsAre
  <2>2. /\ NumberId(services, rows[i].number) # NoId
        /\ services[NumberId(services, rows[i].number)].manager = rows[i].manager
    BY <2>1, <2>3 DEF ServiceSaid
  <2>4. ASSUME NEW c \in rows[i].codes
        PROVE  /\ CodeId(devices, c) # NoId
               /\ devices[CodeId(devices, c)].service = NumberId(services, rows[i].number)
               /\ devices[CodeId(devices, c)].recovery = rows[i].recovery
               /\ rows[i].keeper # Blank =>
                     devices[CodeId(devices, c)].keeper = rows[i].keeper
    BY <2>1, <2>3 DEF DeviceSaid, DeviceIs
  <2> QED
    BY <1>1, <2>1, <2>2, <2>4
<1>5. ASSUME NEW i \in Ids(a)
      PROVE  ~v[i].error
  <2>1. /\ Sound(a, i) /\ a[i].sid = NoId /\ a[i].sver = 0 /\ a[i].did = NoId /\ a[i].dver = 0
    BY <1>1, <1>4
  <2>2. \A c \in a[i].codes : devices[DeviceOf(c)].service = ServiceOf(a[i])
    BY <1>1, <1>4 DEF DeviceOf, ServiceOf, CodeId, NumberId
  <2>3. ~(WrongService(a[i]) \/ ServiceOutdated(a[i]) \/ WrongDevice(a[i]) \/ DeviceOutdated(a[i]))
    BY <2>1 DEF WrongService, ServiceOutdated, WrongDevice, DeviceOutdated
  <2>4. ~OwnedByOther(a[i])
    BY <2>2 DEF OwnedByOther
  <2>5. ~Faulty(a, i)
    BY <2>1, <2>3, <2>4 DEF Faulty, Sound
  <2>6. Stage(a, i).error = Faulty(a, i)
    BY DEF Stage
  <2> QED
    BY <1>2, <2>5, <2>6
<1>6. Clean(v)
  BY <1>2, <1>5 DEF Clean
<1> HIDE DEF v
<1>7. BusinessItems(v) = {}
  <2> SUFFICES ASSUME NEW x \in BusinessItems(v)
               PROVE  FALSE
    OBVIOUS
  <2>1. PICK i \in Ids(v) : BusinessChanged(v[i])
    BY <1>2, BusinessItemsFrom
  <2>2. v[i].id = NumberId(services, a[i].number) /\ v[i].manager = a[i].manager
    BY <1>2, <1>3 DEF StagedAs, RowStagedAs
  <2> QED
    BY <1>1, <1>2, <1>4, <2>1, <2>2 DEF BusinessChanged
<1>8. DeviceItems(v) = {}
  <2> SUFFICES ASSUME NEW x \in DeviceItems(v)
               PROVE  FALSE
    OBVIOUS
  <2>1. PICK i \in Ids(v) : \E data \in v[i].devices : DeviceChanged(data)
    BY <1>2, DeviceItemsFrom
  <2>2. PICK data \in v[i].devices : DeviceChanged(data)
    BY <2>1
  <2>3. i \in Ids(rows)
    BY <1>1, <1>2
  <2>4. DeviceStagedAs(data, a[i], devices)
    BY <1>2, <1>3 DEF StagedAs, RowStagedAs
  <2>5. /\ data.code \in a[i].codes /\ data.id = CodeId(devices, data.code)
        /\ data.keeper = a[i].keeper /\ data.recovery = a[i].recovery
    BY <2>4 DEF DeviceStagedAs
  <2> QED
    BY <1>4, <2>2, <2>3, <2>5 DEF DeviceChanged
<1>9. Same(v)
  BY <1>7, <1>8 DEF Same, ItemsOf, Domain
<1> QED
  BY <1>6, <1>9 DEF v, a

-----------------------------------------------------------------------------
(* A batch is ready or rejected before its first submission and when a set *)
(* of it was decided against; it is applied when nothing of it is open.    *)
BatchFits ==
    /\ batch.status \in {"none", "ready", "rejected"} =>
          \/ \A d \in Domain : sets[d].status = "none"
          \/ \E d \in Domain : sets[d].status \notin Undecided
    /\ batch.status = "applied" =>
          ~left /\ \A d \in Domain : sets[d].status \in {"none", "applied"}

LEMMA BatchFitsInit == Init => BatchFits
<1>1. Init => \A d \in Domain : sets[d].status = "none"
  BY DEF Init, NoSets, NoSet
<1>2. Init => batch.status = "none"
  BY DEF Init, NoBatch
<1> QED
  BY <1>1, <1>2 DEF BatchFits

LEMMA StepFitsBatch == IInv /\ BatchFits /\ [Next]_vars => BatchFits'
<1> SUFFICES ASSUME IInv, BatchFits, [Next]_vars
             PROVE  BatchFits'
  OBVIOUS
<1>1. /\ sets \in [Domain -> [status : SetStatus, items : SUBSET Item]]
      /\ batch \in [status : BatchStatus, rows : Seq(Row), staged : Seq(StagedRow),
                    from : Snapshots]
  BY DEF IInv, Types
<1>2. CASE batch' = batch /\ sets' = sets /\ left' = left
  BY <1>2 DEF BatchFits
<1>3. CASE Upload
  <2>1. /\ sets' = NoSets /\ batch'.status = "ready"
    BY <1>3 DEF Upload, Begin
  <2>2. \A d \in Domain : sets'[d].status = "none"
    BY <2>1 DEF NoSets, NoSet
  <2> QED
    BY <2>1, <2>2 DEF BatchFits
<1>4. CASE Correct
  <2>1. sets' = sets /\ batch'.status = batch.status /\ batch.status = "ready"
    <3>1. \A sheet : [batch EXCEPT !.rows = sheet, !.staged = Validate(sheet)].status
                        = batch.status
      BY <1>1
    <3> QED
      BY <1>4, <3>1 DEF Correct
  <2> QED
    BY <2>1 DEF BatchFits
<1>5. CASE Submit
  <2>1. batch'.status = "reviewing"
    BY <1>1, <1>5 DEF Submit
  <2> QED
    BY <2>1 DEF BatchFits
<1>6. ASSUME NEW d \in Domain, Decide(d)
      PROVE  BatchFits'
  <2>1. PICK decision \in {"approved", "returned", "rejected"} :
           /\ sets' = Restatused(sets, d, decision)
           /\ batch' = [batch EXCEPT !.status = BatchAfter(decision)]
    BY <1>6 DEF Decide, Restatused
  <2>2. batch'.status = BatchAfter(decision)
    BY <1>1, <2>1
  <2>3. decision \in SetStatus
    BY DEF SetStatus
  <2>4. sets'[d].status = decision
    BY <1>1, <2>1, <2>3, SetRestatused
  <2>5. CASE decision = "approved"
    BY <2>2, <2>5 DEF BatchAfter, BatchFits
  <2>6. CASE decision \in {"returned", "rejected"}
    <3>1. sets'[d].status \notin Undecided
      BY <2>4, <2>6 DEF Undecided
    <3>2. batch'.status # "applied"
      BY <2>2, <2>6 DEF BatchAfter
    <3> QED
      BY <3>1, <3>2 DEF BatchFits
  <2> QED
    BY <2>5, <2>6
<1>7. ASSUME NEW d \in Domain, Apply(d)
      PROVE  BatchFits'
  <2>1. /\ sets' = Restatused(sets, d, "applied") /\ "applied" \in SetStatus
        /\ sets[d].status = "approved" /\ left' = left
    BY <1>7 DEF Apply, Restatused, SetStatus
  <2>2. sets'[d].status = "applied" /\ \A o \in Domain \ {d} : sets'[o] = sets[o]
    BY <1>1, <2>1, SetRestatused
  <2>3. CASE ~left /\ \A o \in Domain \ {d} : sets[o].status \in {"none", "applied"}
    <3>1. batch' = [batch EXCEPT !.status = "applied"]
      BY <1>7, <2>3 DEF Apply
    <3>2. batch'.status = "applied"
      BY <1>1, <3>1
    <3> QED
      BY <2>1, <2>2, <2>3, <3>2 DEF BatchFits
  <2>4. CASE ~(~left /\ \A o \in Domain \ {d} : sets[o].status \in {"none", "applied"})
    <3>1. batch' = batch
      BY <1>7, <2>4 DEF Apply
    <3>2. batch.status # "applied"
      BY <2>1 DEF BatchFits
    <3>3. ASSUME batch.status \in {"none", "ready", "rejected"}
          PROVE  \E o \in Domain : sets'[o].status \notin Undecided
      <4>1. PICK o \in Domain : sets[o].status \notin Undecided
        BY <2>1, <3>3 DEF BatchFits
      <4>2. o # d
        BY <2>1, <4>1 DEF Undecided
      <4> QED
        BY <2>2, <4>1, <4>2
    <3> QED
      BY <3>1, <3>2, <3>3 DEF BatchFits
  <2> QED
    BY <2>3, <2>4
<1>8. CASE ExportLedger \/ CreateService \/ EditService \/ EditDevice \/ UNCHANGED vars
  BY <1>2, <1>8 DEF ExportLedger, CreateService, EditService, EditDevice, Edits, vars
<1> QED
  BY <1>3, <1>4, <1>5, <1>6, <1>7, <1>8 DEF Next

(* Between submission and the end of the batch, with nobody interfering.   *)
Open ==
    /\ fresh /\ ~left /\ batch.status \in {"reviewing", "applied"}
    /\ \A d \in Domain : sets[d].status \in Undecided

Said == Open => SheetSaid(batch.rows, Waiting(sets, "business"), Waiting(sets, "network"),
                          services, devices)

LEMMA SubmitSays ==
  ASSUME IInv, Foreseen, Submit
  PROVE  Said'
<1> SUFFICES ASSUME fresh'
             PROVE  SheetSaid(batch'.rows, Waiting(sets', "business"),
                              Waiting(sets', "network"), services', devices')
  BY DEF Said, Open
<1> DEFINE staged == batch.staged
           rows == batch.rows
<1>1. /\ services' = services /\ devices' = devices
      /\ fresh /\ (\A d \in Domain : sets[d].status # "applied")
      /\ Clean(staged)
  BY DEF Submit, ledger
<1>2. /\ staged \in Seq(StagedRow) /\ Matched(staged) /\ Keyed(services, devices)
  BY DEF IInv, Types, RowsOK
<1>3. batch'.rows = rows
  <2>1. batch \in [status : BatchStatus, rows : Seq(Row), staged : Seq(StagedRow),
                   from : Snapshots]
    BY DEF IInv, Types
  <2>2. batch' = [batch EXCEPT !.status = "reviewing"]
    BY DEF Submit
  <2> QED
    BY <2>1, <2>2
<1>4. StagedAs(staged, rows, services, devices)
  BY <1>1 DEF Foreseen
<1>5. Waiting(sets', "business") = BusinessItems(staged)
      /\ Waiting(sets', "network") = DeviceItems(staged)
  BY SubmittedWaits
<1> HIDE DEF staged, rows
<1>6. SheetSaid(rows, BusinessItems(staged), DeviceItems(staged), services, devices)
  BY <1>1, <1>2, <1>4, ItemsSayServices, ItemsSayDevices DEF SheetSaid
<1> QED
  BY <1>1, <1>3, <1>5, <1>6

LEMMA DecideSays ==
  ASSUME IInv, BatchFits, Said, NEW d \in Domain, Decide(d)
  PROVE  Said'
<1> SUFFICES ASSUME Open'
             PROVE  SheetSaid(batch'.rows, Waiting(sets', "business"),
                              Waiting(sets', "network"), services', devices')
  BY DEF Said
<1>1. /\ sets \in [Domain -> [status : SetStatus, items : SUBSET Item]]
      /\ batch \in [status : BatchStatus, rows : Seq(Row), staged : Seq(StagedRow),
                    from : Snapshots]
  BY DEF IInv, Types
<1>2. PICK decision \in {"approved", "returned", "rejected"} :
         /\ sets' = Restatused(sets, d, decision)
         /\ batch' = [batch EXCEPT !.status = BatchAfter(decision)]
  BY DEF Decide, Restatused
<1>3. /\ services' = services /\ devices' = devices /\ fresh' = fresh /\ left' = left
      /\ sets[d].status = "submitted"
  BY DEF Decide, ledger
<1>4. batch'.rows = batch.rows /\ decision \in SetStatus
  BY <1>1, <1>2 DEF SetStatus
<1>5. sets'[d].status = decision /\ \A o \in Domain \ {d} : sets'[o] = sets[o]
  BY <1>1, <1>2, <1>4, SetRestatused
<1>6. decision = "approved"
  BY <1>5 DEF Open, Undecided
<1>7. \A o \in Domain : Waiting(sets', o) = Waiting(sets, o)
  <2>1. Waiting(sets, d) = sets[d].items /\ "approved" \in Pending
    BY <1>3 DEF Waiting, Pending
  <2>2. Waiting(sets', d) = sets[d].items
    BY <1>1, <1>2, <1>4, <1>6, <2>1, WaitingRestatused
  <2>3. \A o \in Domain \ {d} : Waiting(sets', o) = Waiting(sets, o)
    BY <1>1, <1>2, <1>4, WaitingRestatused
  <2> QED
    BY <2>1, <2>2, <2>3
<1>8. \A o \in Domain : sets[o].status \in Undecided
  BY <1>3, <1>5 DEF Open, Undecided
<1>9. batch.status \in {"reviewing", "applied"}
  BY <1>1, <1>3, <1>8 DEF BatchFits, BatchStatus
<1>10. Open
  BY <1>3, <1>8, <1>9 DEF Open
<1> QED
  BY <1>3, <1>4, <1>7, <1>10, DomainIs DEF Said

LEMMA ApplySays ==
  ASSUME IInv, BatchFits, Said, NEW d \in Domain, Apply(d)
  PROVE  Said'
<1> SUFFICES ASSUME Open'
             PROVE  SheetSaid(batch'.rows, Waiting(sets', "business"),
                              Waiting(sets', "network"), services', devices')
  BY DEF Said
<1>1. /\ sets \in [Domain -> [status : SetStatus, items : SUBSET Item]]
      /\ batch \in [status : BatchStatus, rows : Seq(Row), staged : Seq(StagedRow),
                    from : Snapshots]
      /\ Keyed(services, devices) /\ ItemsOK
  BY DEF IInv, Types
<1>2. /\ sets' = Restatused(sets, d, "applied") /\ "applied" \in SetStatus
      /\ fresh' = fresh /\ left' = left
      /\ sets[d].status = "approved" /\ "applied" \notin Pending
      /\ batch' = [batch EXCEPT !.status = "applied"] \/ batch' = batch
  BY DEF Apply, Restatused, SetStatus, Pending
<1>3. batch'.rows = batch.rows
  BY <1>1, <1>2
<1>4. /\ Waiting(sets', d) = {} /\ Waiting(sets, d) = sets[d].items
      /\ \A o \in Domain \ {d} : sets'[o] = sets[o] /\ Waiting(sets', o) = Waiting(sets, o)
  <2>1. Waiting(sets', d) = {}
    BY <1>1, <1>2, WaitingRestatused
  <2>2. \A o \in Domain \ {d} : Waiting(sets', o) = Waiting(sets, o)
    BY <1>1, <1>2, WaitingRestatused
  <2>3. \A o \in Domain \ {d} : sets'[o] = sets[o]
    BY <1>1, <1>2, SetRestatused
  <2>4. Waiting(sets, d) = sets[d].items
    BY <1>2 DEF Waiting, Pending
  <2> QED
    BY <2>1, <2>2, <2>3, <2>4
<1>5. \A o \in Domain : sets[o].status \in Undecided
  BY <1>2, <1>4 DEF Open, Undecided
<1>6. batch.status \in {"reviewing", "applied"}
  BY <1>1, <1>2, <1>5 DEF BatchFits, BatchStatus
<1>7. SheetSaid(batch.rows, Waiting(sets, "business"), Waiting(sets, "network"),
                services, devices)
  BY <1>2, <1>5, <1>6 DEF Said, Open
<1>8. CASE d = "business"
  <2> DEFINE items == sets["business"].items
  <2>1. /\ items \in SUBSET BusinessItem /\ IsFiniteSet(items)
        /\ Distinct(items) /\ NumbersDistinct(items)
    BY <1>1 DEF ItemsOK
  <2>2. /\ \A x \in items : BusinessApplies(x)
        /\ ApplyBusiness(items) /\ devices' = devices
    BY <1>8 DEF Apply, Applicable
  <2>3. /\ Waiting(sets, "business") = items /\ Waiting(sets', "business") = {}
        /\ Waiting(sets', "network") = Waiting(sets, "network")
    BY <1>4, <1>8, DomainIs
  <2> HIDE DEF items
  <2>4. SheetSaid(batch.rows, {}, Waiting(sets, "network"), services', devices)
    BY <1>1, <1>7, <2>1, <2>2, <2>3, SaidAfterBusiness
  <2> QED
    BY <1>3, <2>2, <2>3, <2>4
<1>9. CASE d = "network"
  <2> DEFINE items == sets["network"].items
  <2>1. /\ items \in SUBSET DeviceItem /\ IsFiniteSet(items)
        /\ Distinct(items) /\ CodesDistinct(items)
    BY <1>1 DEF ItemsOK
  <2>2. /\ \A x \in items : DeviceApplies(x)
        /\ ApplyDevices(items) /\ services' = services
    BY <1>9 DEF Apply, Applicable
  <2>3. /\ Waiting(sets, "network") = items /\ Waiting(sets', "network") = {}
        /\ Waiting(sets', "business") = Waiting(sets, "business")
    BY <1>4, <1>9, DomainIs
  <2> HIDE DEF items
  <2>4. SheetSaid(batch.rows, Waiting(sets, "business"), {}, services, devices')
    BY <1>1, <1>7, <2>1, <2>2, <2>3, SaidAfterNetwork
  <2> QED
    BY <1>3, <2>2, <2>3, <2>4
<1> QED
  BY <1>8, <1>9, DomainIs

LEMMA StepSays == IInv /\ Foreseen /\ BatchFits /\ Said /\ [Next]_vars => Said'
<1> SUFFICES ASSUME IInv, Foreseen, BatchFits, Said, [Next]_vars
             PROVE  Said'
  OBVIOUS
<1>1. CASE ExportLedger \/ UNCHANGED vars
  <2>1. /\ services' = services /\ devices' = devices /\ batch' = batch
        /\ sets' = sets /\ left' = left /\ fresh' = fresh
    BY <1>1 DEF ExportLedger, vars, ledger
  <2> QED
    BY <2>1 DEF Said, Open
<1>2. CASE Upload
  <2>1. batch'.status = "ready"
    BY <1>2 DEF Upload, Begin
  <2> QED
    BY <2>1 DEF Said, Open
<1>3. CASE Correct
  <2>1. batch \in [status : BatchStatus, rows : Seq(Row), staged : Seq(StagedRow),
                   from : Snapshots]
    BY DEF IInv, Types
  <2>2. \A sheet : [batch EXCEPT !.rows = sheet, !.staged = Validate(sheet)].status
                      = batch.status
    BY <2>1
  <2>3. batch'.status = "ready"
    BY <1>3, <2>2 DEF Correct
  <2> QED
    BY <2>3 DEF Said, Open
<1>4. CASE Submit
  BY <1>4, SubmitSays
<1>5. ASSUME NEW d \in Domain, Decide(d)
      PROVE  Said'
  BY <1>5, DecideSays
<1>6. ASSUME NEW d \in Domain, Apply(d)
      PROVE  Said'
  BY <1>6, ApplySays
<1>7. CASE CreateService \/ EditService \/ EditDevice
  <2>1. fresh' = FALSE
    BY <1>7 DEF CreateService, EditService, EditDevice, Edits
  <2> QED
    BY <2>1 DEF Said, Open
<1> QED
  BY <1>1, <1>2, <1>3, <1>4, <1>5, <1>6, <1>7 DEF Next

LEMMA SaidAlways == Spec => [](BatchFits /\ Said)
<1>1. Init => Said
  <2>1. Init => batch.status = "none"
    BY DEF Init, NoBatch
  <2> QED
    BY <2>1 DEF Said, Open
<1> QED
  BY <1>1, InvAlways, ForeseenAlways, BatchFitsInit, StepFitsBatch, StepSays, PTL DEF Spec

LEMMA SaidImpliesQuiet ==
  ASSUME IInv, BatchFits, Said
  PROVE  ReimportIsQuiet
<1> SUFFICES ASSUME batch.status = "applied", fresh,
                    \A i \in Ids(Again(batch.rows)) :
                       {Again(batch.rows)[i].manager, Again(batch.rows)[i].recovery}
                          \subseteq Held
             PROVE  Clean(Validate(Again(batch.rows))) /\ Same(Validate(Again(batch.rows)))
  BY DEF ReimportIsQuiet, Again, Bare
<1>1. Keyed(services, devices) /\ Sheet(batch.rows)
  BY DEF IInv, Types, RowsOK
<1>2. ~left /\ \A d \in Domain : sets[d].status \in {"none", "applied"}
  BY DEF BatchFits
<1>3. Open
  BY <1>2 DEF Open, Undecided
<1>4. Waiting(sets, "business") = {} /\ Waiting(sets, "network") = {}
  BY <1>2, DomainIs DEF Waiting, Pending
<1>5. SheetSaid(batch.rows, {}, {}, services, devices)
  BY <1>3, <1>4 DEF Said
<1>6. \A i \in Ids(batch.rows) :
         {batch.rows[i].manager, batch.rows[i].recovery} \subseteq Held
  BY <1>1, AgainIsASheet
<1> QED
  BY <1>1, <1>5, <1>6, SaidIsQuiet

(* Once a batch is applied and nobody else changed the ledger, its sheet   *)
(* uploaded again passes validation and there is nothing in it to review:  *)
(* application wrote exactly what the rows say, for creates and updates,   *)
(* whichever of the two sets was applied first, unless a row says what is  *)
(* not stored as it stands.                                                *)
THEOREM ReimportComesBack == Spec => []ReimportIsQuiet
<1>1. IInv /\ BatchFits /\ Said => ReimportIsQuiet
  BY SaidImpliesQuiet
<1> QED
  BY <1>1, InvAlways, SaidAlways, PTL
=============================================================================
