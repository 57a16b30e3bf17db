--------------------------- MODULE SchemaVersioning ---------------------------
(***************************************************************************)
(* The pure part of schema versions: schemas/schema-versioning.py and      *)
(* schema-migration.py.  A version is the triple that parse_semver makes   *)
(* of its string; a schema is a list of fields, and nothing in here or in  *)
(* the handler of an update keeps a label from occurring in it twice.      *)
(***************************************************************************)
EXTENDS Naturals, Sequences, FiniteSets

CONSTANT FieldLists   \* the lists of fields that clients send

Field == [label : STRING, type : STRING, occurrence : STRING, prompt : STRING]

ASSUME VersioningAssumption == FieldLists \subseteq Seq(Field)

(* "1.0.0", of a schema that is new or has none.                           *)
FirstVersion == <<1, 0, 0>>
Version == Nat \X Nat \X Nat

(* v < w of compare_versions: Python compares tuples by their first        *)
(* difference.                                                             *)
Older(v, w) == \E i \in 1..3 : v[i] < w[i] /\ \A j \in 1..(i - 1) : v[j] = w[j]

Labels(fields) == {fields[i].label : i \in DOMAIN fields}

(* validate_schema: what creating a schema insists on.                     *)
Valid(fields) == fields # <<>> /\ Cardinality(Labels(fields)) = Len(fields)

(* next(f for f in fields if ...) finds the first one with a label, a dict *)
(* keeps the last.                                                         *)
FirstOf(fields, name) ==
    fields[CHOOSE i \in DOMAIN fields :
              fields[i].label = name /\ \A j \in 1..(i - 1) : fields[j].label # name]

LastOf(fields, name) ==
    fields[CHOOSE i \in DOMAIN fields :
              fields[i].label = name /\ \A j \in (i + 1)..Len(fields) : fields[j].label # name]

SameKind(f, g) == f.type = g.type /\ f.occurrence = g.occurrence

(* is_backward_compatible                                                  *)
IsBackwardCompatible(old, new) ==
    \A name \in Labels(old) :
        name \in Labels(new) /\ SameKind(LastOf(old, name), LastOf(new, name))

Removed(old, new) == ~(Labels(old) \subseteq Labels(new))
Added(old, new)   == ~(Labels(new) \subseteq Labels(old))

Retyped(old, new) ==
    \E name \in Labels(old) \cap Labels(new) : ~SameKind(FirstOf(old, name), FirstOf(new, name))

Reworded(old, new) ==
    \E name \in Labels(old) \cap Labels(new) : FirstOf(old, name).prompt # FirstOf(new, name).prompt

(* Fault: an addition is looked for before a breaking change.              *)
ComputeAddedFirst(old, new, v) ==
    IF Added(old, new) THEN <<v[1], v[2] + 1, 0>>
    ELSE IF Removed(old, new) \/ Retyped(old, new) THEN <<v[1] + 1, 0, 0>>
    ELSE IF Reworded(old, new) THEN <<v[1], v[2], v[3] + 1>>
    ELSE v

(* compute_next_version                                                    *)
ComputeNextVersion(old, new, v) ==
    IF Removed(old, new) \/ Retyped(old, new) THEN <<v[1] + 1, 0, 0>>
    ELSE IF Added(old, new) THEN <<v[1], v[2] + 1, 0>>
    ELSE IF Reworded(old, new) THEN <<v[1], v[2], v[3] + 1>>
    ELSE v

(* diff_fields: the labels of either list in five groups.                  *)
DiffFields(old, new) ==
    LET common  == Labels(old) \cap Labels(new)
        retyped == {name \in common : ~SameKind(LastOf(old, name), LastOf(new, name))}
        prompt  == {name \in common : LastOf(old, name).prompt # LastOf(new, name).prompt}
    IN [added          |-> Labels(new) \ Labels(old),
        removed        |-> Labels(old) \ Labels(new),
        type_changed   |-> retyped,
        prompt_changed |-> prompt \ retyped,
        unchanged      |-> common \ (retyped \cup prompt)]

(* Fault: only a change of the type is a breaking one.                     *)
WarningsOfTypes(old, new) ==
    LET diff == DiffFields(old, new)
    IN {<<"removed", name>> : name \in diff.removed}
       \cup {<<"type", name>> : name \in
                {x \in diff.type_changed : LastOf(old, x).type # LastOf(new, x).type}}

(* validate_migration: what is warned of, and at which label.              *)
ValidateMigration(old, new) ==
    LET diff == DiffFields(old, new)
    IN {<<"removed", name>> : name \in diff.removed}
       \cup {w \in {"type", "occurrence"} \X diff.type_changed :
                LastOf(old, w[2])[w[1]] # LastOf(new, w[2])[w[1]]}
       \cup {<<"optional", name>> : name \in
                {x \in diff.type_changed : /\ LastOf(old, x).occurrence = "required"
                                           /\ LastOf(new, x).occurrence = "optional"}}
=============================================================================
