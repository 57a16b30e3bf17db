------------------------- MODULE SchemaCatalogue_proofs -------------------------
(***************************************************************************)
(* Proofs about SchemaCatalogue for every number of schemas, clients and   *)
(* versions, and every list of fields, those with a label twice included.  *)
(***************************************************************************)
EXTENDS SchemaCatalogue, WellFoundedInduction, FiniteSetTheorems, TLAPS

-----------------------------------------------------------------------------
(* Lists of fields                                                         *)

LEMMA Least == ASSUME NEW S \in SUBSET Nat, S # {} PROVE \E n \in S : \A m \in S : n <= m
<1> DEFINE R == OpToRel(<, Nat)
<1>1. \A x, y \in Nat : <<y, x>> \in R <=> y < x
  BY DEF OpToRel
<1>2. IsWellFoundedOn(R, Nat)
  BY NatLessThanWellFounded
<1> HIDE DEF R
<1>3. PICK n \in S : \A m \in S : ~(<<m, n>> \in R)
  BY <1>2, WFMin
<1>4. \A m \in S : m \in Nat /\ n \in Nat /\ ~(m < n)
  BY <1>1, <1>3
<1> QED BY <1>4

(* The first field with a label is one of the list's and has the label.    *)
LEMMA FirstOfIsField ==
    ASSUME NEW fields \in Seq(Field), NEW name \in Labels(fields)
    PROVE  FirstOf(fields, name) \in Field /\ FirstOf(fields, name).label = name
<1> DEFINE S == {i \in DOMAIN fields : fields[i].label = name}
           IsFirst(i) == fields[i].label = name /\ \A j \in 1..(i - 1) : fields[j].label # name
<1>1. S \in SUBSET Nat /\ S # {}
  BY DEF Labels
<1>2. PICK n \in S : \A m \in S : n <= m
  <2> HIDE DEF S
  <2> QED BY <1>1, Least
<1>3. n \in DOMAIN fields /\ IsFirst(n)
  <2>1. DOMAIN fields = 1..Len(fields) /\ Len(fields) \in Nat /\ n \in 1..Len(fields)
    BY <1>2
  <2>2. ASSUME NEW j \in 1..(n - 1), fields[j].label = name PROVE FALSE
    <3>1. j \in DOMAIN fields
      BY <2>1
    <3>2. j \in S
      BY <2>2, <3>1
    <3> QED BY <1>2, <2>1, <3>2
  <2> QED BY <1>2, <2>2
<1> DEFINE k == CHOOSE i \in DOMAIN fields : IsFirst(i)
<1>4. k \in DOMAIN fields /\ fields[k].label = name
  BY <1>3
<1>5. FirstOf(fields, name) = fields[k]
  BY DEF FirstOf
<1> QED BY <1>4, <1>5

(* g has every field of f, of the same kind, and perhaps more.             *)
Extends(f, g) ==
    \A name \in Labels(f) :
        name \in Labels(g) /\ SameKind(FirstOf(f, name), FirstOf(g, name))

LEMMA ExtendsReflexive == ASSUME NEW f PROVE Extends(f, f)
  BY DEF Extends, SameKind

LEMMA ExtendsTransitive ==
    ASSUME NEW f, NEW g, NEW h, Extends(f, g), Extends(g, h) PROVE Extends(f, h)
  BY DEF Extends, SameKind

LEMMA SameExtends == ASSUME NEW f, NEW g, SameFields(f, g) PROVE Extends(f, g) /\ Extends(g, f)
  BY DEF SameFields, Extends, SameKind

LEMMA SameReflexive == ASSUME NEW f PROVE SameFields(f, f)
  BY DEF SameFields

LEMMA SameTransitive ==
    ASSUME NEW f, NEW g, NEW h, SameFields(f, g), SameFields(g, h) PROVE SameFields(f, h)
  BY DEF SameFields

-----------------------------------------------------------------------------
(* What compute_next_version says of two lists                             *)

LEMMA NextIsVersion ==
    ASSUME NEW old, NEW new, NEW v \in Version
    PROVE  ComputeNextVersion(old, new, v) \in Version
  BY DEF ComputeNextVersion, Version

LEMMA MajorMeansBroken ==
    ASSUME NEW old, NEW new, NEW v \in Version, Removed(old, new) \/ Retyped(old, new)
    PROVE  ComputeNextVersion(old, new, v) = <<v[1] + 1, 0, 0>>
  BY DEF ComputeNextVersion

LEMMA NotBrokenExtends ==
    ASSUME NEW old, NEW new, ~Removed(old, new), ~Retyped(old, new)
    PROVE  Extends(old, new)
  BY DEF Removed, Retyped, Extends

LEMMA NotAddedExtends ==
    ASSUME NEW old, NEW new, ~Removed(old, new), ~Retyped(old, new), ~Added(old, new)
    PROVE  Extends(new, old)
  BY DEF Removed, Retyped, Added, Extends, SameKind

(* A new version is a new major one, the next minor one with more fields   *)
(* or the next patch with the same.                                        *)
LEMMA NextVersionCases ==
    ASSUME NEW old, NEW new, NEW v \in Version,
           ComputeNextVersion(old, new, v) # v
    PROVE  LET nv == ComputeNextVersion(old, new, v) IN
           \/ nv = <<v[1] + 1, 0, 0>>
           \/ nv = <<v[1], v[2] + 1, 0>> /\ Extends(old, new)
           \/ nv = <<v[1], v[2], v[3] + 1>> /\ Extends(old, new) /\ Extends(new, old)
<1>1. CASE Removed(old, new) \/ Retyped(old, new)
  BY <1>1, MajorMeansBroken
<1>2. CASE ~Removed(old, new) /\ ~Retyped(old, new) /\ Added(old, new)
  BY <1>2, NotBrokenExtends DEF ComputeNextVersion
<1>3. CASE ~Removed(old, new) /\ ~Retyped(old, new) /\ ~Added(old, new)
  BY <1>3, NotBrokenExtends, NotAddedExtends DEF ComputeNextVersion
<1> QED BY <1>1, <1>2, <1>3

(* No new version, no difference.                                          *)
LEMMA SameVersionSameFields ==
    ASSUME NEW old \in Seq(Field), NEW new \in Seq(Field), NEW v \in Version,
           ComputeNextVersion(old, new, v) = v
    PROVE  SameFields(old, new)
<1>1. v[1] \in Nat /\ v[2] \in Nat /\ v[3] \in Nat /\ v = <<v[1], v[2], v[3]>>
  BY DEF Version
<1>2. ~Removed(old, new) /\ ~Retyped(old, new)
  BY <1>1, MajorMeansBroken
<1>3. ~Added(old, new)
  <2>1. <<v[1], v[2] + 1, 0>> # v
    BY <1>1
  <2> QED BY <1>2, <2>1 DEF ComputeNextVersion
<1>4. ~Reworded(old, new)
  <2>1. <<v[1], v[2], v[3] + 1>> # v
    BY <1>1
  <2> QED BY <1>2, <1>3, <2>1 DEF ComputeNextVersion
<1>5. Labels(old) = Labels(new)
  BY <1>2, <1>3 DEF Removed, Added
<1>6. ASSUME NEW name \in Labels(old) PROVE FirstOf(old, name) = FirstOf(new, name)
  <2> DEFINE f == FirstOf(old, name)
             g == FirstOf(new, name)
  <2>1. f \in Field /\ g \in Field /\ f.label = g.label
    BY <1>5, FirstOfIsField
  <2>2. f.type = g.type /\ f.occurrence = g.occurrence /\ f.prompt = g.prompt
    BY <1>2, <1>4, <1>5 DEF Retyped, Reworded, SameKind
  <2> HIDE DEF f, g
  <2>3. /\ f = [label |-> f.label, type |-> f.type, occurrence |-> f.occurrence, prompt |-> f.prompt]
        /\ g = [label |-> g.label, type |-> g.type, occurrence |-> g.occurrence, prompt |-> g.prompt]
    BY <2>1 DEF Field
  <2>4. f = g
    BY <2>1, <2>2, <2>3
  <2> QED BY <2>4 DEF f, g
<1> QED BY <1>5, <1>6 DEF SameFields

-----------------------------------------------------------------------------
(* Histories                                                               *)

HasFirst(vs) == \E s \in vs : s.version = FirstVersion

(* The versions of one schema: its rows, and what it was seeded with if it *)
(* has no row of the first version.                                        *)
History(vs) ==
    {[version |-> s.version, fields |-> s.fields] : s \in vs}
    \cup (IF HasFirst(vs) THEN {} ELSE {[version |-> FirstVersion, fields |-> TemplateFields]})

Entry == [version : Version, fields : FieldLists]

(* All versions of a major number stem from its first and have each the    *)
(* fields of the minor versions before.                                    *)
Complete(h) ==
    \A a \in h : \A m \in 0..a.version[2] : \E b \in h : b.version = <<a.version[1], m, 0>>

Ordered(h) ==
    \A a, b \in h :
        a.version[1] = b.version[1] /\ a.version[2] <= b.version[2] => Extends(a.fields, b.fields)

Good(vs) ==
    /\ \A a \in History(vs) : a.version[1] > 0
    /\ Complete(History(vs))
    /\ Ordered(History(vs))

(* A version that was read, with its fields, is one of the history.        *)
Recorded(vs, v, f) == \E a \in History(vs) : a.version = v /\ SameFields(a.fields, f)

LEMMA FirstIsVersion == FirstVersion \in Version /\ FirstVersion = <<1, 0, 0>>
  BY DEF FirstVersion, Version

LEMMA HistoryType == ASSUME NEW vs \in SUBSET Snapshot PROVE History(vs) \subseteq Entry
  BY FirstIsVersion, CatalogueAssumption DEF History, Entry, Snapshot

LEMMA VersionParts ==
    ASSUME NEW v \in Version
    PROVE  v[1] \in Nat /\ v[2] \in Nat /\ v[3] \in Nat /\ v = <<v[1], v[2], v[3]>>
  BY DEF Version

LEMMA HistoryGrows ==
    ASSUME NEW vs \in SUBSET Snapshot, NEW s \in Snapshot, s.version # FirstVersion
    PROVE  History(vs \cup {s}) =
               History(vs) \cup {[version |-> s.version, fields |-> s.fields]}
<1>1. HasFirst(vs \cup {s}) <=> HasFirst(vs)
  BY DEF HasFirst
<1> QED BY <1>1 DEF History

LEMMA OfHistory ==
    ASSUME NEW vs \in SUBSET Snapshot, NEW a \in History(vs), a.version # FirstVersion
    PROVE  \E s \in vs : s.version = a.version
  BY DEF History

(* An update that the database accepts keeps the history good: its version *)
(* is not there, and so neither is any minor version after the one it read.*)
LEMMA UpdateGood ==
    ASSUME NEW vs \in SUBSET Snapshot, Good(vs),
           NEW v \in Version, NEW f \in FieldLists, Recorded(vs, v, f),
           NEW s \in Snapshot,
           s.version = ComputeNextVersion(f, s.fields, v), s.version # v,
           \A t \in vs : t.version # s.version
    PROVE  Good(vs \cup {s}) /\ s.version # FirstVersion
<1> DEFINE h  == History(vs)
           nv == s.version
           g  == s.fields
           new == [version |-> nv, fields |-> g]
<1>1. PICK a \in h : a.version = v /\ SameFields(a.fields, f)
  BY DEF Recorded
<1>2. h \subseteq Entry /\ \A b \in h : b.version \in Version
  BY HistoryType DEF Entry
<1>3. v[1] \in Nat /\ v[2] \in Nat /\ v[3] \in Nat /\ v = <<v[1], v[2], v[3]>> /\ v[1] > 0
  BY <1>1, VersionParts DEF Good
<1>4. \/ nv = <<v[1] + 1, 0, 0>>
      \/ nv = <<v[1], v[2] + 1, 0>> /\ Extends(f, g)
      \/ nv = <<v[1], v[2], v[3] + 1>> /\ Extends(f, g) /\ Extends(g, f)
  BY NextVersionCases
<1>5. nv # FirstVersion
  BY <1>3, <1>4, FirstIsVersion
<1>6. History(vs \cup {s}) = h \cup {new}
  BY <1>5, HistoryGrows
<1>7. \A b \in h : b.version # nv
  BY <1>5, OfHistory
<1>8. Extends(a.fields, f) /\ Extends(f, a.fields)
  BY <1>1, SameExtends
<1>9. Complete(h) /\ Ordered(h)
  BY DEF Good
<1>10. nv[1] > 0 /\ \A b \in h : b.version[1] > 0
  BY <1>3, <1>4 DEF Good
<1>11. \A b \in h : b.version[1] \in Nat /\ b.version[2] \in Nat
  BY <1>2, VersionParts
<1> HIDE DEF h, nv, g
<1>12. ASSUME NEW m \in 0..nv[2] PROVE \E b \in h \cup {new} : b.version = <<nv[1], m, 0>>
  <2>1. CASE nv = <<v[1] + 1, 0, 0>>
    <3>1. new.version = <<nv[1], m, 0>>
      BY <2>1
    <3> QED BY <3>1
  <2>2. CASE nv = <<v[1], v[2] + 1, 0>>
    <3>1. CASE m = v[2] + 1
      <4>1. new.version = <<nv[1], m, 0>>
        BY <2>2, <3>1
      <4> QED BY <4>1
    <3>2. CASE m # v[2] + 1
      <4>1. m \in 0..a.version[2] /\ nv[1] = a.version[1]
        BY <1>1, <1>3, <2>2, <3>2
      <4> QED BY <1>9, <4>1 DEF Complete
    <3> QED BY <3>1, <3>2
  <2>3. CASE nv = <<v[1], v[2], v[3] + 1>>
    <3>1. m \in 0..a.version[2] /\ nv[1] = a.version[1]
      BY <1>1, <2>3
    <3> QED BY <1>9, <3>1 DEF Complete
  <2> QED BY <1>4, <2>1, <2>2, <2>3
<1>13. Complete(h \cup {new})
  <2>1. new.version = nv
    OBVIOUS
  <2> HIDE DEF new
  <2> QED BY <1>9, <1>12, <2>1 DEF Complete
<1>14. ASSUME NEW b \in h, b.version[1] = nv[1]
       PROVE  /\ b.version[2] <= nv[2] => Extends(b.fields, g)
              /\ nv[2] <= b.version[2] => Extends(g, b.fields)
  <2>1. CASE nv = <<v[1] + 1, 0, 0>>
    <3>1. 0 \in 0..b.version[2]
      BY <1>11
    <3>2. \E x \in h : x.version = nv
      BY <1>9, <1>14, <2>1, <3>1 DEF Complete
    <3> QED BY <1>7, <3>2
  <2>2. CASE nv = <<v[1], v[2] + 1, 0>> /\ Extends(f, g)
    <3>1. b.version[2] <= v[2]
      <4>1. SUFFICES ASSUME b.version[2] > v[2] PROVE FALSE
        BY <1>3, <1>11
      <4>2. v[2] + 1 \in 0..b.version[2]
        BY <1>3, <1>11, <4>1
      <4>3. \E x \in h : x.version = nv
        BY <1>9, <1>14, <2>2, <4>2 DEF Complete
      <4> QED BY <1>7, <4>3
    <3>2. Extends(b.fields, a.fields)
      BY <1>1, <1>9, <1>14, <2>2, <3>1 DEF Ordered
    <3>3. Extends(b.fields, g)
      BY <1>8, <2>2, <3>2, ExtendsTransitive
    <3>4. ~(nv[2] <= b.version[2])
      BY <1>3, <1>11, <2>2, <3>1
    <3> QED BY <3>3, <3>4
  <2>3. CASE nv = <<v[1], v[2], v[3] + 1>> /\ Extends(f, g) /\ Extends(g, f)
    <3>1. ASSUME b.version[2] <= nv[2] PROVE Extends(b.fields, g)
      <4>1. Extends(b.fields, a.fields)
        BY <1>1, <1>9, <1>14, <2>3, <3>1 DEF Ordered
      <4> QED BY <1>8, <2>3, <4>1, ExtendsTransitive
    <3>2. ASSUME nv[2] <= b.version[2] PROVE Extends(g, b.fields)
      <4>1. Extends(a.fields, b.fields)
        BY <1>1, <1>9, <1>14, <2>3, <3>2 DEF Ordered
      <4>2. Extends(g, a.fields)
        BY <1>8, <2>3, ExtendsTransitive
      <4> QED BY <4>1, <4>2, ExtendsTransitive
    <3> QED BY <3>1, <3>2
  <2> QED BY <1>4, <2>1, <2>2, <2>3
<1>15. Ordered(h \cup {new})
  <2>1. Extends(g, g)
    BY ExtendsReflexive
  <2>2. new.version = nv /\ new.fields = g
    OBVIOUS
  <2> HIDE DEF new
  <2> QED BY <1>9, <1>14, <2>1, <2>2 DEF Ordered
<1>16. \A b \in h \cup {new} : b.version[1] > 0
  BY <1>10
<1>17. Good(vs \cup {s})
  <2> HIDE DEF new
  <2> QED BY <1>6, <1>13, <1>15, <1>16 DEF Good
<1> QED BY <1>5, <1>17 DEF nv
LEMMA StartsGood ==
    ASSUME NEW vs, NEW f, History(vs) = {[version |-> FirstVersion, fields |-> f]}
    PROVE  Good(vs) /\ Recorded(vs, FirstVersion, f)
<1> DEFINE a == [version |-> FirstVersion, fields |-> f]
<1>1. a.version = <<1, 0, 0>> /\ a.fields = f /\ History(vs) = {a}
  BY FirstIsVersion
<1> HIDE DEF a
<1>2. Complete({a})
  <2>1. 0..a.version[2] = {0}
    BY <1>1
  <2> QED BY <1>1, <2>1 DEF Complete
<1>3. Ordered({a})
  BY ExtendsReflexive DEF Ordered
<1>4. Good(vs)
  BY <1>1, <1>2, <1>3 DEF Good
<1>5. Recorded(vs, FirstVersion, f)
  BY <1>1, SameReflexive, FirstIsVersion DEF Recorded
<1> QED BY <1>4, <1>5

LEMMA RecordedGrows ==
    ASSUME NEW vs \in SUBSET Snapshot, NEW s \in Snapshot, s.version # FirstVersion,
           NEW v, NEW f, Recorded(vs, v, f)
    PROVE  Recorded(vs \cup {s}, v, f)
  BY HistoryGrows DEF Recorded

LEMMA RecordedNew ==
    ASSUME NEW vs \in SUBSET Snapshot, NEW s \in Snapshot, s.version # FirstVersion
    PROVE  Recorded(vs \cup {s}, s.version, s.fields)
<1> DEFINE a == [version |-> s.version, fields |-> s.fields]
<1>1. a \in History(vs \cup {s})
  BY HistoryGrows
<1>2. a.version = s.version /\ SameFields(a.fields, s.fields)
  BY SameReflexive
<1> QED BY <1>1, <1>2 DEF Recorded

-----------------------------------------------------------------------------
(* The invariant                                                           *)

SchemaGood(vs, row) ==
    /\ Good(vs) /\ Recorded(vs, row.version, row.fields)
    /\ HasFirst(vs) \/ row.name \in Seeded

(* A schema that no other workspace has asked to delete has a good         *)
(* history, which holds what it says is current.                           *)
SchemasGood == \A i \in Stored \ stripped : SchemaGood(VersionsOf(i), schemas[i])

(* What an update has read stays in the history until it writes, or else   *)
(* the schema is gone.                                                     *)
UpdatesGood ==
    \A c \in Client :
        client[c].op = "update" /\ client[c].id \in Stored \ stripped =>
            Recorded(VersionsOf(client[c].id), client[c].row.version, client[c].row.fields)

DeletesGood ==
    \A c \in Client :
        client[c].op = "delete" => \A s \in client[c].doomed : s.id = client[c].id

Inv == TypeOK /\ SchemasGood /\ UpdatesGood /\ DeletesGood

-----------------------------------------------------------------------------
(* Types                                                                   *)

LEMMA VersionsOfType ==
    ASSUME TypeOK, NEW i PROVE VersionsOf(i) \in SUBSET Snapshot
  BY DEF TypeOK, VersionsOf

LEMMA StoredRow ==
    ASSUME TypeOK, NEW i \in Stored PROVE schemas[i] \in Row
  BY DEF TypeOK, Stored

LEMMA UpdateType ==
    ASSUME TypeOK, NEW c \in Client, client[c].op = "update"
    PROVE  /\ client[c].id \in Id /\ client[c].row \in Row /\ client[c].fields \in FieldLists
           /\ client[c].row.version \in Version /\ client[c].row.fields \in FieldLists
<1>1. client[c] \in Request
  BY DEF TypeOK
<1>2. client[c] \in [op : {"update"}, id : Id, row : Row, fields : FieldLists]
  BY <1>1 DEF Request, Idle
<1>3. client[c].row \in Row
  BY <1>2
<1> QED BY <1>2, <1>3 DEF Row

LEMMA DeleteType ==
    ASSUME TypeOK, NEW c \in Client, client[c].op = "delete"
    PROVE  client[c].id \in Id /\ client[c].ws \in Workspace /\ client[c].doomed \in SUBSET Snapshot
<1>1. client[c] \in Request
  BY DEF TypeOK
<1>2. client[c] \in [op : {"delete"}, id : Id, ws : Workspace, doomed : SUBSET Snapshot]
  BY <1>1 DEF Request, Idle
<1> QED BY <1>2

LEMMA FinishType ==
    ASSUME TypeOK, NEW c \in Client, Finish(c)
    PROVE  client' \in [Client -> Request]
  BY DEF TypeOK, Finish, Request

LEMMA SnapshotType ==
    ASSUME TypeOK, NEW c \in Client, client[c].op = "update"
    PROVE  /\ NextVersion(client[c]) \in Version
           /\ SnapshotOf(client[c]) \in Snapshot
           /\ SnapshotOf(client[c]).id = client[c].id
           /\ SnapshotOf(client[c]).version = NextVersion(client[c])
           /\ SnapshotOf(client[c]).fields = client[c].fields
<1>1. NextVersion(client[c]) \in Version
  BY UpdateType, NextIsVersion DEF NextVersion
<1>2. client[c].id \in Id /\ client[c].fields \in FieldLists
  BY UpdateType
<1> QED BY <1>1, <1>2 DEF SnapshotOf, Snapshot

(* What an update makes of the row.                                        *)
LEMMA StoreRow ==
    ASSUME TypeOK, NEW c \in Client, client[c].op = "update", Store(client[c])
    PROVE  /\ schemas' \in [Id -> Row \cup {None}]
           /\ \A j \in Id : schemas'[j] = None <=> schemas[j] = None
           /\ \A j \in Id : j # client[c].id => schemas'[j] = schemas[j]
           /\ client[c].id \in Stored =>
                /\ schemas'[client[c].id].fields = client[c].fields
                /\ schemas'[client[c].id].version = NextVersion(client[c])
                /\ schemas'[client[c].id].name = schemas[client[c].id].name
<1> DEFINE i  == client[c].id
           f  == client[c].fields
           nv == NextVersion(client[c])
<1>1. i \in Id /\ f \in FieldLists /\ nv \in Version
  BY UpdateType, SnapshotType
<1>2. schemas \in [Id -> Row \cup {None}]
  BY DEF TypeOK
<1>3. schemas' = IF i \notin Stored THEN schemas
                 ELSE [schemas EXCEPT ![i].fields = f, ![i].version = nv]
  BY DEF Store
<1> HIDE DEF i, f, nv
<1>4. CASE i \notin Stored
  BY <1>2, <1>3, <1>4 DEF i
<1>5. CASE i \in Stored
  <2> DEFINE row == [schemas[i] EXCEPT !.fields = f, !.version = nv]
  <2>1. schemas[i] \in Row
    BY <1>5, StoredRow
  <2>2. row \in Row /\ row.fields = f /\ row.version = nv /\ row.name = schemas[i].name
    BY <1>1, <2>1 DEF Row
  <2>3. row # None /\ schemas[i] # None
    BY <2>1, <2>2, CatalogueAssumption
  <2>4. schemas' = [schemas EXCEPT ![i] = row]
    BY <1>1, <1>2, <1>3, <1>5
  <2> HIDE DEF row
  <2>5. schemas'[i] = row /\ schemas' \in [Id -> Row \cup {None}]
    BY <1>1, <1>2, <2>2, <2>4
  <2>6. \A j \in Id : j # i => schemas'[j] = schemas[j]
    BY <1>1, <1>2, <2>4
  <2> QED BY <2>2, <2>3, <2>5, <2>6 DEF i, f, nv
<1> QED BY <1>4, <1>5

LEMMA RemoveType ==
    ASSUME TypeOK, NEW i \in Id, NEW w, NEW doomed, Remove(i, w, doomed)
    PROVE  /\ schemas' \in [Id -> Row \cup {None}]
           /\ versions' \subseteq Snapshot /\ stripped' \subseteq Id
  BY DEF TypeOK, Remove, Stored

LEMMA TypeInit == Init => TypeOK
  BY CatalogueAssumption DEF Init, TypeOK, Request

LEMMA TypeNext == TypeOK /\ [Next]_vars => TypeOK'
<1> SUFFICES ASSUME TypeOK, [Next]_vars PROVE TypeOK'
  OBVIOUS
<1> USE FirstIsVersion, CatalogueAssumption
<1>1. ASSUME NEW i \in Fresh, NEW name \in Name, SeedSchema(i, name) PROVE TypeOK'
  BY <1>1 DEF TypeOK, SeedSchema, Row, Fresh
<1>2. ASSUME NEW i \in Fresh, NEW name \in Name, NEW w \in Workspace, NEW fields \in FieldLists,
             Create(i, w, name, fields)
      PROVE  TypeOK'
  <2> DEFINE row == [name |-> name, ws |-> w, fields |-> fields, version |-> FirstVersion]
             s   == [id |-> i, version |-> FirstVersion, fields |-> fields, warned |-> FALSE]
  <2>1. i \in Id
    BY DEF Fresh
  <2>2. row \in Row /\ s \in Snapshot
    BY <2>1 DEF Row, Snapshot
  <2>3. schemas' = [schemas EXCEPT ![i] = row] /\ versions' = versions \cup {s}
    BY <1>2 DEF Create
  <2> HIDE DEF row, s
  <2>4. schemas' \in [Id -> Row \cup {None}] /\ versions' \subseteq Snapshot
    BY <2>1, <2>2, <2>3 DEF TypeOK
  <2> QED BY <1>2, <2>4 DEF TypeOK, Create
<1>3. CASE Serve
  BY <1>3 DEF TypeOK, Serve
<1>4. CASE Restart
  BY <1>4 DEF TypeOK, Restart, Request
<1>5. ASSUME NEW i \in Id, NEW w \in Workspace, Delete(i, w) PROVE TypeOK'
  BY <1>5, RemoveType DEF TypeOK, Delete
<1>6. ASSUME NEW i \in Id, NEW w \in Workspace, NEW c \in Client, DeleteVersions(c, i, w)
      PROVE  TypeOK'
  <2>1. [op |-> "delete", id |-> i, ws |-> w, doomed |-> VersionsOf(i)] \in Request
    BY VersionsOfType DEF Request
  <2> QED BY <1>6, <2>1 DEF TypeOK, DeleteVersions
<1>7. ASSUME NEW c \in Client, NEW i \in Id, NEW fields \in FieldLists, UpdateRead(c, i, fields)
      PROVE  TypeOK'
  <2>1. schemas[i] \in Row
    BY <1>7, StoredRow DEF UpdateRead
  <2>2. [op |-> "update", id |-> i, row |-> schemas[i], fields |-> fields] \in Request
    BY <2>1 DEF Request
  <2> QED BY <1>7, <2>2 DEF TypeOK, UpdateRead
<1>8. ASSUME NEW c \in Client, UpdateWrite(c) PROVE TypeOK'
  <2>1. client[c].op = "update" /\ Store(client[c]) /\ Finish(c)
    BY <1>8 DEF UpdateWrite
  <2>2. versions' \subseteq Snapshot
    BY <1>8, <2>1, SnapshotType DEF UpdateWrite, TypeOK
  <2>3. schemas' \in [Id -> Row \cup {None}] /\ client' \in [Client -> Request]
    BY <2>1, StoreRow, FinishType
  <2> QED BY <1>8, <2>2, <2>3 DEF TypeOK, UpdateWrite
<1>9. ASSUME NEW c \in Client, Abort(c) PROVE TypeOK'
  BY <1>9, FinishType DEF TypeOK, Abort
<1>10. ASSUME NEW c \in Client, DeleteRow(c) PROVE TypeOK'
  BY <1>10, DeleteType, RemoveType, FinishType DEF TypeOK, DeleteRow
<1>11. CASE UNCHANGED vars
  BY <1>11 DEF TypeOK, vars
<1> QED BY <1>1, <1>2, <1>3, <1>4, <1>5, <1>6, <1>7, <1>8, <1>9, <1>10, <1>11 DEF Next

-----------------------------------------------------------------------------
(* The steps                                                               *)

(* A step that leaves a schema and its versions as they are.               *)
Kept(j) ==
    /\ j \in Stored \ stripped /\ schemas'[j] = schemas[j]
    /\ VersionsOf(j)' = VersionsOf(j)

LEMMA SchemasStayGood ==
    ASSUME SchemasGood,
           \A j \in Stored' \ stripped' : Kept(j) \/ SchemaGood(VersionsOf(j)', schemas'[j])
    PROVE  SchemasGood'
  BY DEF SchemasGood, Kept

(* UpdatesGood by the schema, which a step does not change.                *)
LEMMA UpdatesOf ==
    (\A c \in Client, j \in Stored' \ stripped' :
        client'[c].op = "update" /\ client'[c].id = j =>
            Recorded(VersionsOf(j)', client'[c].row.version, client'[c].row.fields))
    => UpdatesGood'
  BY DEF UpdatesGood, VersionsOf

LEMMA UpdatesStayGood ==
    ASSUME UpdatesGood,
           \A c \in Client : client'[c] = client[c] \/ client'[c] = Idle,
           \A c \in Client, j \in Stored' \ stripped' :
              client[c].op = "update" /\ client[c].id = j => Kept(j)
    PROVE  UpdatesGood'
<1> SUFFICES ASSUME NEW c \in Client, NEW j \in Stored' \ stripped',
                    client'[c].op = "update", client'[c].id = j
             PROVE  Recorded(VersionsOf(j)', client'[c].row.version, client'[c].row.fields)
  BY UpdatesOf
<1>1. client'[c] = client[c]
  BY DEF Idle
<1>2. Kept(j)
  BY <1>1
<1>3. Recorded(VersionsOf(j), client[c].row.version, client[c].row.fields)
  BY <1>1, <1>2 DEF UpdatesGood, Kept
<1> QED BY <1>1, <1>2, <1>3 DEF Kept

LEMMA DeletesStayGood ==
    ASSUME DeletesGood, \A c \in Client : client'[c] = client[c] \/ client'[c] = Idle
    PROVE  DeletesGood'
  BY DEF DeletesGood, Idle

(* A new schema, with no version or with its first.                        *)
LEMMA NewSchemaGood ==
    ASSUME Inv, NEW i \in Fresh, NEW row \in Row, row.version = FirstVersion,
           schemas' = [schemas EXCEPT ![i] = row],
           \A j \in Id : j # i => VersionsOf(j)' = VersionsOf(j),
           History(VersionsOf(i)') = {[version |-> FirstVersion, fields |-> row.fields]},
           HasFirst(VersionsOf(i)') \/ row.name \in Seeded,
           UNCHANGED <<client, stripped>>
    PROVE  SchemasGood' /\ UpdatesGood' /\ DeletesGood'
<1>1. i \in Id /\ ~Busy(i)
  BY DEF Fresh
<1>2. \A j \in Id : j # i => schemas'[j] = schemas[j]
  BY <1>1 DEF Inv, TypeOK
<1>3. \A j \in Stored' \ stripped' : j # i => Kept(j)
  BY <1>2 DEF Stored, Kept
<1>4. schemas'[i] = row
  BY <1>1 DEF Inv, TypeOK
<1>5. SchemaGood(VersionsOf(i)', schemas'[i])
  BY <1>4, StartsGood DEF SchemaGood
<1>6. SchemasGood'
  BY <1>3, <1>5, SchemasStayGood DEF Inv
<1>7. \A c \in Client : client[c].op = "update" => client[c].id # i
  BY <1>1 DEF Busy, Idle
<1>8. UpdatesGood'
  BY <1>3, <1>7, UpdatesStayGood DEF Inv
<1>9. DeletesGood'
  BY DeletesStayGood DEF Inv
<1> QED BY <1>6, <1>8, <1>9

LEMMA SeedGood ==
    ASSUME Inv, NEW i \in Fresh, NEW name \in Name, SeedSchema(i, name)
    PROVE  SchemasGood' /\ UpdatesGood' /\ DeletesGood'
<1> DEFINE row == [name |-> name, ws |-> "default", fields |-> TemplateFields, version |-> FirstVersion]
<1>1. row \in Row /\ row.version = FirstVersion /\ row.fields = TemplateFields /\ row.name \in Seeded
  BY FirstIsVersion, CatalogueAssumption DEF Row, SeedSchema
<1>2. schemas' = [schemas EXCEPT ![i] = row] /\ UNCHANGED <<versions, client, stripped>>
  BY DEF SeedSchema
<1>3. \A j \in Id : VersionsOf(j)' = VersionsOf(j)
  BY <1>2 DEF VersionsOf
<1>4. VersionsOf(i)' = {}
  BY <1>3 DEF Fresh
<1>5. History({}) = {[version |-> FirstVersion, fields |-> TemplateFields]}
  BY DEF History, HasFirst
<1> HIDE DEF row
<1> QED BY <1>1, <1>2, <1>3, <1>4, <1>5, NewSchemaGood

LEMMA CreateGood ==
    ASSUME Inv, NEW i \in Fresh, NEW name \in Name, NEW w \in Workspace, NEW fields \in FieldLists,
           Create(i, w, name, fields)
    PROVE  SchemasGood' /\ UpdatesGood' /\ DeletesGood'
<1> DEFINE row == [name |-> name, ws |-> w, fields |-> fields, version |-> FirstVersion]
           s   == [id |-> i, version |-> FirstVersion, fields |-> fields, warned |-> FALSE]
<1>1. row \in Row /\ row.version = FirstVersion /\ row.fields = fields
  BY FirstIsVersion DEF Row
<1>2. /\ schemas' = [schemas EXCEPT ![i] = row] /\ versions' = versions \cup {s}
      /\ UNCHANGED <<client, stripped>>
  BY DEF Create
<1>3. s.id = i /\ s.version = FirstVersion /\ s.fields = fields
  OBVIOUS
<1> HIDE DEF row, s
<1>4. \A j \in Id : j # i => VersionsOf(j)' = VersionsOf(j)
  BY <1>2, <1>3 DEF VersionsOf
<1>5. VersionsOf(i)' = {s}
  BY <1>2, <1>3 DEF VersionsOf, Fresh
<1>6. HasFirst({s}) /\ History({s}) = {[version |-> FirstVersion, fields |-> fields]}
  BY <1>3 DEF HasFirst, History
<1> QED BY <1>1, <1>2, <1>4, <1>5, <1>6, NewSchemaGood

LEMMA ReadGood ==
    ASSUME Inv, NEW c \in Client, NEW i \in Id, NEW fields \in FieldLists, UpdateRead(c, i, fields)
    PROVE  SchemasGood' /\ UpdatesGood' /\ DeletesGood'
<1> DEFINE req == [op |-> "update", id |-> i, row |-> schemas[i], fields |-> fields]
<1>1. /\ client' = [client EXCEPT ![c] = req] /\ i \in Stored
      /\ UNCHANGED <<schemas, versions, stripped>>
  BY DEF UpdateRead
<1>2. client'[c] = req /\ \A d \in Client : d # c => client'[d] = client[d]
  BY <1>1 DEF Inv, TypeOK
<1>3. req.op = "update" /\ req.id = i /\ req.row = schemas[i]
  OBVIOUS
<1> HIDE DEF req
<1>4. Stored' = Stored /\ \A j : VersionsOf(j)' = VersionsOf(j)
  BY <1>1 DEF Stored, VersionsOf
<1>5. SchemasGood'
  BY <1>1, <1>4 DEF Inv, SchemasGood
<1>6. UpdatesGood'
  <2> SUFFICES ASSUME NEW d \in Client, NEW j \in Stored \ stripped,
                      client'[d].op = "update", client'[d].id = j
               PROVE  Recorded(VersionsOf(j), client'[d].row.version, client'[d].row.fields)
    BY <1>1, <1>4, UpdatesOf
  <2>1. CASE d = c
    BY <1>2, <1>3, <2>1 DEF Inv, SchemasGood, SchemaGood
  <2>2. CASE d # c
    BY <1>2, <2>2 DEF Inv, UpdatesGood
  <2> QED BY <2>1, <2>2
<1>7. DeletesGood'
  <2>1. req.op # "delete"
    BY <1>3
  <2> QED BY <1>2, <2>1 DEF Inv, DeletesGood
<1> QED BY <1>5, <1>6, <1>7

LEMMA WriteGood ==
    ASSUME Inv, NEW c \in Client, UpdateWrite(c)
    PROVE  SchemasGood' /\ UpdatesGood' /\ DeletesGood'
<1> PICK i : i = client[c].id
  OBVIOUS
<1> DEFINE req == client[c]
           s   == SnapshotOf(req)
           vs  == VersionsOf(i)
<1>1. req.op = "update" /\ Accepted(req) /\ Store(req) /\ Finish(c) /\ UNCHANGED stripped
  BY DEF UpdateWrite
<1>2. versions' = IF Bumps(req) THEN versions \cup {s} ELSE versions
  BY DEF UpdateWrite
<1>3. /\ i \in Id /\ req.row.version \in Version
      /\ req.row.fields \in FieldLists /\ req.fields \in FieldLists
  BY <1>1, UpdateType DEF Inv
<1>4. s \in Snapshot /\ s.id = i /\ s.version = NextVersion(req) /\ s.fields = req.fields
  BY <1>1, SnapshotType DEF Inv
<1>5. Stored' = Stored /\ \A j \in Id : j # i => schemas'[j] = schemas[j]
  BY <1>1, StoreRow DEF Inv, Stored
<1>6. i \in Stored => schemas'[i].fields = req.fields /\ schemas'[i].version = NextVersion(req)
                      /\ schemas'[i].name = schemas[i].name
  BY <1>1, StoreRow DEF Inv
<1>7. \A d \in Client : client'[d] = IF d = c THEN Idle ELSE client[d]
  BY <1>1 DEF Finish, Inv, TypeOK
<1>8. vs \in SUBSET Snapshot
  BY VersionsOfType DEF Inv
<1>9. NextVersion(req) = ComputeNextVersion(req.row.fields, req.fields, req.row.version)
  BY DEF NextVersion
<1>10. Bumps(req) => \A t \in vs : t.version # s.version
  BY <1>1, <1>4 DEF Accepted, Collides
<1>11. Bumps(req) <=> s.version # req.row.version
  BY <1>4 DEF Bumps
<1>12. i \in Stored \ stripped =>
          Recorded(vs, req.row.version, req.row.fields) /\ SchemaGood(vs, schemas[i])
  BY <1>1 DEF Inv, UpdatesGood, SchemasGood
<1> HIDE DEF req, s, vs
<1>13. \A j \in Id : j # i => VersionsOf(j)' = VersionsOf(j)
  BY <1>2, <1>4 DEF VersionsOf
<1>14. VersionsOf(i)' = IF Bumps(req) THEN vs \cup {s} ELSE vs
  BY <1>2, <1>4 DEF VersionsOf, vs
<1>15. \A j \in Stored \ stripped : j # i => Kept(j)
  BY <1>5, <1>13 DEF Kept, Stored
<1>16. ASSUME Bumps(req), i \in Stored \ stripped
       PROVE  Good(vs \cup {s}) /\ s.version # FirstVersion
  <2>1. Good(vs) /\ Recorded(vs, req.row.version, req.row.fields)
    BY <1>12, <1>16 DEF SchemaGood
  <2>2. s.version = ComputeNextVersion(req.row.fields, s.fields, req.row.version)
    BY <1>4, <1>9
  <2> QED BY <1>3, <1>4, <1>8, <1>10, <1>11, <1>16, <2>1, <2>2, UpdateGood
<1>17. ASSUME i \in Stored \ stripped PROVE SchemaGood(VersionsOf(i)', schemas'[i])
  <2>1. CASE Bumps(req)
    <3>1. Good(vs \cup {s}) /\ Recorded(vs \cup {s}, s.version, s.fields)
      BY <1>4, <1>8, <1>16, <1>17, <2>1, RecordedNew
    <3>2. HasFirst(vs \cup {s}) \/ schemas[i].name \in Seeded
      BY <1>12, <1>17 DEF SchemaGood, HasFirst
    <3> QED BY <1>4, <1>6, <1>14, <1>17, <2>1, <3>1, <3>2 DEF SchemaGood
  <2>2. CASE ~Bumps(req)
    <3>1. NextVersion(req) = req.row.version
      BY <2>2 DEF Bumps
    <3>2. SameFields(req.row.fields, req.fields)
      BY <1>3, <1>9, <3>1, SameVersionSameFields, VersioningAssumption
    <3>3. Recorded(vs, NextVersion(req), req.fields)
      BY <1>12, <1>17, <3>1, <3>2, SameTransitive DEF Recorded
    <3> QED BY <1>6, <1>12, <1>14, <1>17, <2>2, <3>3 DEF SchemaGood
  <2> QED BY <2>1, <2>2
<1>18. SchemasGood'
  BY <1>1, <1>5, <1>15, <1>17, SchemasStayGood DEF Inv
<1>19. UpdatesGood'
  <2> SUFFICES ASSUME NEW d \in Client, NEW j \in Stored \ stripped,
                      client'[d].op = "update", client'[d].id = j
               PROVE  Recorded(VersionsOf(j)', client'[d].row.version, client'[d].row.fields)
    BY <1>1, <1>5, UpdatesOf
  <2>1. d # c /\ client'[d] = client[d]
    BY <1>7 DEF Idle
  <2>2. Recorded(VersionsOf(j), client[d].row.version, client[d].row.fields)
    BY <2>1 DEF Inv, UpdatesGood
  <2>3. CASE j # i
    BY <1>13, <2>1, <2>2, <2>3 DEF Stored
  <2>4. CASE j = i /\ ~Bumps(req)
    BY <1>14, <2>1, <2>2, <2>4 DEF vs
  <2>5. CASE j = i /\ Bumps(req)
    <3>1. Recorded(vs \cup {s}, client[d].row.version, client[d].row.fields)
      BY <1>4, <1>8, <1>16, <2>2, <2>5, RecordedGrows DEF vs
    <3> QED BY <1>14, <2>1, <2>5, <3>1
  <2> QED BY <2>3, <2>4, <2>5
<1>20. DeletesGood'
  BY <1>7, DeletesStayGood DEF Inv
<1> QED BY <1>18, <1>19, <1>20

(* The versions of one schema go, and it goes too or is stripped.          *)
LEMMA RemoveGood ==
    ASSUME Inv, NEW i \in Id, NEW w, NEW doomed, \A s \in doomed : s.id = i,
           Remove(i, w, doomed),
           \A c \in Client : client'[c] = client[c] \/ client'[c] = Idle
    PROVE  SchemasGood' /\ UpdatesGood' /\ DeletesGood'
<1>1. versions' = versions \ doomed
  BY DEF Remove
<1>2. \A j \in Id : j # i => VersionsOf(j)' = VersionsOf(j)
  BY <1>1 DEF VersionsOf
<1>3. i \notin Stored' \ stripped'
  BY DEF Remove, Stored, Inv, TypeOK
<1>4. /\ stripped \subseteq stripped'
      /\ \A j \in Id : j # i => schemas'[j] = schemas[j]
  BY DEF Remove, Inv, TypeOK
<1>5. \A j \in Stored' \ stripped' : Kept(j)
  BY <1>2, <1>3, <1>4 DEF Kept, Stored
<1> QED BY <1>5, SchemasStayGood, UpdatesStayGood, DeletesStayGood DEF Inv

LEMMA OtherGood ==
    ASSUME Inv, UNCHANGED <<schemas, versions, stripped>>,
           \A c \in Client : client'[c] = client[c] \/ client'[c] = Idle
    PROVE  SchemasGood' /\ UpdatesGood' /\ DeletesGood'
<1>1. \A j \in Stored' \ stripped' : Kept(j)
  BY DEF Kept, Stored, VersionsOf
<1> QED BY <1>1, SchemasStayGood, UpdatesStayGood, DeletesStayGood DEF Inv

LEMMA DeleteVersionsGood ==
    ASSUME Inv, NEW i \in Id, NEW w \in Workspace, NEW c \in Client, DeleteVersions(c, i, w)
    PROVE  SchemasGood' /\ UpdatesGood' /\ DeletesGood'
<1> DEFINE req == [op |-> "delete", id |-> i, ws |-> w, doomed |-> VersionsOf(i)]
<1>1. client' = [client EXCEPT ![c] = req] /\ UNCHANGED <<schemas, versions, stripped>>
  BY DEF DeleteVersions
<1>2. \A d \in Client : client'[d] = IF d = c THEN req ELSE client[d]
  BY <1>1 DEF Inv, TypeOK
<1>3. req.op = "delete" /\ req.id = i /\ \A s \in req.doomed : s.id = i
  BY DEF VersionsOf
<1> HIDE DEF req
<1>4. Stored' = Stored /\ \A j : VersionsOf(j)' = VersionsOf(j)
  BY <1>1 DEF Stored, VersionsOf
<1>5. SchemasGood'
  BY <1>1, <1>4 DEF Inv, SchemasGood
<1>6. UpdatesGood'
  BY <1>1, <1>2, <1>3, <1>4 DEF Inv, UpdatesGood
<1>7. DeletesGood'
  BY <1>2, <1>3 DEF Inv, DeletesGood
<1> QED BY <1>5, <1>6, <1>7

LEMMA InvInit == Init => Inv
<1> SUFFICES ASSUME Init PROVE Inv
  OBVIOUS
<1>1. Stored = {} /\ \A c \in Client : client[c] = Idle
  BY DEF Init, Stored
<1> QED BY <1>1, TypeInit DEF Inv, SchemasGood, UpdatesGood, DeletesGood, Idle

LEMMA InvNext == Inv /\ [Next]_vars => Inv'
<1> SUFFICES ASSUME Inv, [Next]_vars PROVE SchemasGood' /\ UpdatesGood' /\ DeletesGood'
  BY TypeNext DEF Inv
<1>0. ASSUME NEW c \in Client, Finish(c)
      PROVE  \A d \in Client : client'[d] = client[d] \/ client'[d] = Idle
  BY <1>0 DEF Finish, Inv, TypeOK
<1>1. ASSUME NEW i \in Fresh, NEW name \in Name,
             \/ SeedSchema(i, name)
             \/ \E w \in Workspace, fields \in FieldLists : Create(i, w, name, fields)
      PROVE  SchemasGood' /\ UpdatesGood' /\ DeletesGood'
  BY <1>1, SeedGood, CreateGood
<1>2. CASE Serve \/ Restart \/ UNCHANGED vars
  BY <1>2, OtherGood DEF Serve, Restart, vars
<1>3. ASSUME NEW i \in Id, NEW w \in Workspace, Delete(i, w)
      PROVE  SchemasGood' /\ UpdatesGood' /\ DeletesGood'
  BY <1>3, RemoveGood DEF Delete, VersionsOf
<1>4. ASSUME NEW i \in Id, NEW w \in Workspace, NEW c \in Client, DeleteVersions(c, i, w)
      PROVE  SchemasGood' /\ UpdatesGood' /\ DeletesGood'
  BY <1>4, DeleteVersionsGood
<1>5. ASSUME NEW c \in Client, NEW i \in Id, NEW fields \in FieldLists, UpdateRead(c, i, fields)
      PROVE  SchemasGood' /\ UpdatesGood' /\ DeletesGood'
  BY <1>5, ReadGood
<1>6. ASSUME NEW c \in Client, UpdateWrite(c) \/ Abort(c)
      PROVE  SchemasGood' /\ UpdatesGood' /\ DeletesGood'
  <2>1. CASE UpdateWrite(c)
    BY <2>1, WriteGood
  <2>2. CASE Abort(c)
    BY <1>0, <2>2, OtherGood DEF Abort
  <2> QED BY <1>6, <2>1, <2>2
<1>7. ASSUME NEW c \in Client, DeleteRow(c)
      PROVE  SchemasGood' /\ UpdatesGood' /\ DeletesGood'
  <2>1. /\ client[c].op = "delete" /\ Finish(c)
        /\ Remove(client[c].id, client[c].ws, client[c].doomed)
    BY <1>7 DEF DeleteRow
  <2>2. client[c].id \in Id /\ \A s \in client[c].doomed : s.id = client[c].id
    BY <2>1, DeleteType DEF Inv, DeletesGood
  <2> QED BY <1>0, <2>1, <2>2, RemoveGood
<1> QED BY <1>1, <1>2, <1>3, <1>4, <1>5, <1>6, <1>7 DEF Next

LEMMA Invariance == Spec => []Inv
<1>1. Init => Inv
  BY InvInit
<1>2. Inv /\ [Next]_vars => Inv'
  BY InvNext
<1> QED BY <1>1, <1>2, PTL DEF Spec

-----------------------------------------------------------------------------
(* What the invariant gives                                                *)

(* Schemas, versions and requests have their types.                        *)
THEOREM TypeCorrect == Spec => []TypeOK
<1>1. Inv => TypeOK
  BY DEF Inv
<1> QED BY <1>1, Invariance, PTL

(* The current version of a schema is in its history and has the fields    *)
(* the schema has, whatever updates and deletes were made at once, unless  *)
(* another workspace asked to delete it.                                   *)
THEOREM CurrentIsInHistory == Spec => []CurrentIsSnapshot
<1>1. ASSUME Inv, NEW i \in Stored \ stripped
      PROVE  \/ \E v \in VersionsOf(i) :
                   v.version = schemas[i].version /\ SameFields(v.fields, schemas[i].fields)
             \/ /\ schemas[i].name \in Seeded /\ schemas[i].version = FirstVersion
                /\ SameFields(schemas[i].fields, TemplateFields)
  <2>1. SchemaGood(VersionsOf(i), schemas[i])
    BY <1>1 DEF Inv, SchemasGood
  <2>2. PICK a \in History(VersionsOf(i)) :
           a.version = schemas[i].version /\ SameFields(a.fields, schemas[i].fields)
    BY <2>1 DEF SchemaGood, Recorded
  <2>3. CASE \E s \in VersionsOf(i) : a = [version |-> s.version, fields |-> s.fields]
    BY <2>2, <2>3
  <2>4. CASE /\ ~HasFirst(VersionsOf(i))
             /\ a = [version |-> FirstVersion, fields |-> TemplateFields]
    <3>1. SameFields(schemas[i].fields, TemplateFields)
      BY <2>2, <2>4 DEF SameFields
    <3> QED BY <2>1, <2>2, <2>4, <3>1 DEF SchemaGood
  <2> QED BY <2>3, <2>4 DEF History
<1>2. Inv => CurrentIsSnapshot
  BY <1>1 DEF CurrentIsSnapshot
<1> QED BY <1>2, Invariance, PTL

LEMMA OlderMinor ==
    ASSUME NEW v \in Version, NEW w \in Version, v[1] = w[1], Older(v, w)
    PROVE  v[2] <= w[2]
<1>1. /\ v[1] \in Nat /\ v[2] \in Nat /\ v[3] \in Nat
      /\ w[1] \in Nat /\ w[2] \in Nat /\ w[3] \in Nat
  BY VersionParts
<1>2. PICK k \in 1..3 : v[k] < w[k] /\ \A j \in 1..(k - 1) : v[j] = w[j]
  BY DEF Older
<1>3. k = 1 \/ k = 2 \/ k = 3
  OBVIOUS
<1>4. k = 3 => v[2] = w[2]
  BY <1>2
<1> QED BY <1>1, <1>2, <1>3, <1>4

(* A version with the same major number and a later minor or patch has     *)
(* every field of the earlier one, of the same kind, however many updates  *)
(* wrote the history without knowing of each other.                        *)
THEOREM VersionsKeepTheirWord == Spec => []SemverTruthful
<1>1. ASSUME Inv, NEW i \in Stored \ stripped, NEW v \in VersionsOf(i), NEW w \in VersionsOf(i),
             v.version[1] = w.version[1], Older(v.version, w.version)
      PROVE  Extends(v.fields, w.fields)
  <2> DEFINE a == [version |-> v.version, fields |-> v.fields]
             b == [version |-> w.version, fields |-> w.fields]
  <2>1. Ordered(History(VersionsOf(i)))
    BY <1>1 DEF Inv, SchemasGood, SchemaGood, Good
  <2>2. a \in History(VersionsOf(i)) /\ b \in History(VersionsOf(i))
    BY DEF History
  <2>3. v.version \in Version /\ w.version \in Version
    BY <1>1, VersionsOfType DEF Inv, Snapshot
  <2>4. v.version[2] <= w.version[2]
    BY <1>1, <2>3, OlderMinor
  <2>5. /\ a.version = v.version /\ a.fields = v.fields
        /\ b.version = w.version /\ b.fields = w.fields
    OBVIOUS
  <2> HIDE DEF a, b
  <2> QED BY <1>1, <2>1, <2>2, <2>4, <2>5 DEF Ordered
<1>2. Inv => SemverTruthful
  BY <1>1 DEF SemverTruthful, Extends
<1> QED BY <1>2, Invariance, PTL

-----------------------------------------------------------------------------
(* Fields in which no label occurs twice                                   *)

LEMMA ValidOnce ==
    ASSUME NEW fields \in Seq(Field), Valid(fields),
           NEW i \in DOMAIN fields, NEW j \in DOMAIN fields, fields[i].label = fields[j].label
    PROVE  i = j
<1> DEFINE S == 1..Len(fields)
           T == Labels(fields)
           f == [k \in S |-> fields[k].label]
<1>1. Len(fields) \in Nat /\ DOMAIN fields = S
  OBVIOUS
<1>2. IsFiniteSet(S) /\ Cardinality(S) = Len(fields)
  <2>1. \A n \in Nat : n \in Int /\ 1 \in Int /\ (IF 1 > n THEN 0 ELSE n - 1 + 1) = n
    OBVIOUS
  <2>2. \A n \in Nat : IsFiniteSet(1..n) /\ Cardinality(1..n) = n
    BY <2>1, FS_Interval
  <2> QED BY <1>1, <2>2
<1>3. f \in Surjection(S, T)
  BY <1>1 DEF Surjection, Labels
<1>4. Cardinality(T) = Cardinality(S)
  BY <1>2 DEF Valid
<1> HIDE DEF T
<1>5. f \in Injection(S, T)
  BY <1>2, <1>3, <1>4, FS_Surjection
<1>6. f[i] = f[j] => i = j
  BY <1>1, <1>5 DEF Injection, IsInjective
<1> QED BY <1>1, <1>6

LEMMA ValidLastIsFirst ==
    ASSUME NEW fields \in Seq(Field), Valid(fields), NEW name \in Labels(fields)
    PROVE  LastOf(fields, name) = FirstOf(fields, name)
<1>1. PICK k \in DOMAIN fields : fields[k].label = name
  BY DEF Labels
<1>2. \A i \in DOMAIN fields : fields[i].label = name => i = k
  BY <1>1, ValidOnce
<1>3. DOMAIN fields = 1..Len(fields) /\ Len(fields) \in Nat
  OBVIOUS
<1>4. \A j \in 1..(k - 1) : fields[j].label # name
  <2>1. \A j \in 1..(k - 1) : j \in DOMAIN fields /\ j # k
    BY <1>3
  <2> QED BY <1>2, <2>1
<1>5. \A j \in (k + 1)..Len(fields) : fields[j].label # name
  <2>1. \A j \in (k + 1)..Len(fields) : j \in DOMAIN fields /\ j # k
    BY <1>3
  <2> QED BY <1>2, <2>1
<1>6. (CHOOSE i \in DOMAIN fields :
          fields[i].label = name /\ \A j \in 1..(i - 1) : fields[j].label # name) = k
  BY <1>1, <1>2, <1>4
<1>7. (CHOOSE i \in DOMAIN fields :
          fields[i].label = name /\ \A j \in (i + 1)..Len(fields) : fields[j].label # name) = k
  BY <1>1, <1>2, <1>5
<1> QED BY <1>6, <1>7 DEF FirstOf, LastOf

LEMMA ValidAgree ==
    ASSUME NEW old \in Seq(Field), NEW new \in Seq(Field), Valid(old), Valid(new)
    PROVE  /\ (Removed(old, new) \/ Retyped(old, new)) <=> ~IsBackwardCompatible(old, new)
           /\ (Removed(old, new) \/ Retyped(old, new)) <=> ValidateMigration(old, new) # {}
<1>1. \A name \in Labels(old) : LastOf(old, name) = FirstOf(old, name)
  BY ValidLastIsFirst
<1>2. \A name \in Labels(new) : LastOf(new, name) = FirstOf(new, name)
  BY ValidLastIsFirst
<1>3. (Removed(old, new) \/ Retyped(old, new)) <=> ~IsBackwardCompatible(old, new)
  BY <1>1, <1>2 DEF Removed, Retyped, IsBackwardCompatible
<1> DEFINE removed == Labels(old) \ Labels(new)
           changed == {name \in Labels(old) \cap Labels(new) :
                          ~SameKind(LastOf(old, name), LastOf(new, name))}
<1>4. DiffFields(old, new).removed = removed /\ DiffFields(old, new).type_changed = changed
  BY DEF DiffFields
<1>5. Removed(old, new) <=> removed # {}
  BY DEF Removed
<1>6. Retyped(old, new) <=> changed # {}
  BY <1>1, <1>2 DEF Retyped
<1>7. \A name \in changed : \E part \in {"type", "occurrence"} :
         LastOf(old, name)[part] # LastOf(new, name)[part]
  BY DEF SameKind
<1> DEFINE parts == {w \in {"type", "occurrence"} \X changed :
                        LastOf(old, w[2])[w[1]] # LastOf(new, w[2])[w[1]]}
           optional == {name \in changed : /\ LastOf(old, name).occurrence = "required"
                                           /\ LastOf(new, name).occurrence = "optional"}
<1>8. ValidateMigration(old, new) =
         {<<"removed", name>> : name \in removed} \cup parts
         \cup {<<"optional", name>> : name \in optional}
  BY <1>4 DEF ValidateMigration
<1> HIDE DEF removed, changed
<1>9. changed # {} => parts # {}
  <2> SUFFICES ASSUME NEW name \in changed PROVE parts # {}
    OBVIOUS
  <2>1. PICK part \in {"type", "occurrence"} : LastOf(old, name)[part] # LastOf(new, name)[part]
    BY <1>7
  <2>2. <<part, name>> \in parts
    BY <2>1
  <2> QED BY <2>2
<1>10. parts # {} \/ optional # {} => changed # {}
  OBVIOUS
<1> HIDE DEF parts, optional
<1>11. ValidateMigration(old, new) # {} <=> removed # {} \/ changed # {}
  BY <1>8, <1>9, <1>10
<1> QED BY <1>3, <1>5, <1>6, <1>11

LEMMA MajorIsBroken ==
    ASSUME NEW old, NEW new, NEW v \in Version, ComputeNextVersion(old, new, v) # v
    PROVE  Major(ComputeNextVersion(old, new, v)) <=> Removed(old, new) \/ Retyped(old, new)
<1>1. v[1] \in Nat /\ v[2] \in Nat /\ v[3] \in Nat
  BY VersionParts
<1>2. CASE Removed(old, new) \/ Retyped(old, new)
  BY <1>2, MajorMeansBroken DEF Major
<1>3. CASE ~(Removed(old, new) \/ Retyped(old, new))
  <2>1. \/ ComputeNextVersion(old, new, v) = <<v[1], v[2] + 1, 0>>
        \/ ComputeNextVersion(old, new, v) = <<v[1], v[2], v[3] + 1>>
    BY <1>3 DEF ComputeNextVersion
  <2>2. v[2] + 1 # 0 /\ v[3] + 1 # 0
    BY <1>1
  <2> QED BY <1>3, <2>1, <2>2 DEF Major
<1> QED BY <1>2, <1>3

(* A new version is a major one if and only if the change is not backward  *)
(* compatible, and if and only if its changelog warns, for lists of fields *)
(* of any length in which no label occurs twice.                           *)
THEOREM BreakingChangesAgree == Spec => BumpsAgree
<1> DEFINE Agree(c, v) ==
              LET old == client[c].row.fields  new == client[c].fields IN
              Valid(old) /\ Valid(new) =>
                  /\ Major(v.version) <=> ~IsBackwardCompatible(old, new)
                  /\ Major(v.version) <=> v.warned
           Step == \A c \in Client :
                      client[c].op = "update" /\ client'[c] = Idle =>
                          \A v \in versions' \ versions : Agree(c, v)
<1>1. ASSUME Inv, [Next]_vars, NEW c \in Client, client[c].op = "update", client'[c] = Idle,
             NEW v \in versions' \ versions
      PROVE  Agree(c, v)
  <2>1. client \in [Client -> Request] /\ Idle.op = "idle"
    BY <1>1 DEF Inv, TypeOK, Idle
  <2>2. client[c] # Idle
    BY <1>1, <2>1
  <2>3. \A d \in Client : UpdateWrite(d) => d = c
    BY <1>1, <2>1, <2>2 DEF UpdateWrite, Finish
  <2>4. \E d \in Client : UpdateWrite(d)
    BY <1>1, <2>2 DEF Next, SeedSchema, Create, Serve, Restart, Delete, DeleteVersions, UpdateRead,
                      Abort, DeleteRow, Remove, vars
  <2>5. UpdateWrite(c)
    BY <2>3, <2>4
  <2> DEFINE req == client[c]
  <2>6. v = SnapshotOf(req) /\ Bumps(req)
    BY <1>1, <2>5 DEF UpdateWrite
  <2>7. v.version = NextVersion(req) /\ v.warned = (ValidateMigration(req.row.fields, req.fields) # {})
    BY <2>6 DEF SnapshotOf
  <2>8. /\ req.row.version \in Version
        /\ req.row.fields \in Seq(Field) /\ req.fields \in Seq(Field)
    BY <1>1, UpdateType, VersioningAssumption DEF Inv
  <2>9. Major(v.version) <=> Removed(req.row.fields, req.fields) \/ Retyped(req.row.fields, req.fields)
    BY <2>6, <2>7, <2>8, MajorIsBroken DEF Bumps, NextVersion
  <2> HIDE DEF req
  <2>10. ASSUME Valid(req.row.fields), Valid(req.fields)
         PROVE  /\ Major(v.version) <=> ~IsBackwardCompatible(req.row.fields, req.fields)
                /\ Major(v.version) <=> v.warned
    BY <2>7, <2>8, <2>9, <2>10, ValidAgree
  <2> QED BY <2>10 DEF req
<1>2. Inv /\ [Next]_vars => [Step]_vars
  <2> HIDE DEF Agree
  <2> QED BY <1>1
<1>3. BumpsAgree <=> [][Step]_vars
  BY PTL DEF BumpsAgree
<1> QED BY <1>2, <1>3, Invariance, PTL DEF Spec

=============================================================================
