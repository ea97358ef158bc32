---------------------------- MODULE CassetteSurface ----------------------------
(***************************************************************************)
(* From a cassette's OpenAPI document to the commands of a CLI             *)
(* (cassettes/spec.rs): the names of its methods, and the inputs of each   *)
(* with their flags.                                                       *)
(*                                                                         *)
(* A name is the sequence of the words between its dashes; a word that is  *)
(* all digits is the number it spells.                                     *)
(***************************************************************************)
EXTENDS Naturals, Sequences, FiniteSets, SequencesExt

CONSTANTS
  NameWords,      \* of names, numbers apart
  Prefix,         \* the word "param"
  Verbs,          \* HTTP_METHODS
  Ids,            \* of operations, kebab-cased
  Wires,          \* what a document calls its parameters: words, in some spelling
  Reservable,     \* flags that a consumer may have of its own (ReducerConfig)
  MaxOperations,
  MaxDeclared,    \* parameters of an operation
  MaxPlaceholders \* of its path

Name == Seq(NameWords \cup Nat)

ASSUME SurfaceAssumption ==
  /\ MaxOperations \in Nat /\ MaxDeclared \in Nat /\ MaxPlaceholders \in Nat
  /\ Prefix \in NameWords /\ \A v \in Verbs : v \in NameWords
  /\ \A id \in Ids : id \in Name
  /\ \A w \in Wires : w.words \in Name

VARIABLES
  operations,  \* of a document, in its order: verb and kebab-cased id
  item         \* one of its operations: the shared and its own parameters, the
               \* template's placeholders and the flags the consumer reserves

surfaceVars == <<operations, item>>

Operation == [verb : Verbs, id : Ids]

\* kebab_case: what is left of a name without its capitals and separators.
Kebab(wire) == wire.words

Param == [wire : Wires, location : {"path", "query", "header"}, by : {"item", "operation", "template"}]

---------------------------------------------------------------------------
(* reduce_methods.                                                         *)

Numbered(name, n) == IF n = 1 THEN name ELSE Append(name, n)
FirstFree(name, taken, from) ==
  Numbered(name, CHOOSE n \in from .. from + Cardinality(taken) :
                   /\ Numbered(name, n) \notin taken
                   /\ \A m \in from .. n - 1 : Numbered(name, m) \in taken)

\* Mutant: the verb is taken to tell any two operations apart.
VerbSuffices(name, verb, taken) == IF name \in taken THEN Append(name, verb) ELSE name

\* The name, with the verb, or with a number.
Unique(name, verb, taken) ==
  CASE name \notin taken -> name
    [] name \in taken /\ Append(name, verb) \notin taken -> Append(name, verb)
    [] OTHER -> FirstFree(name, taken, 2)

\* The document's operations in its order, each named clear of the ones before it.
\* (The methods are sorted by name at last, which changes no name.)
ReduceMethods[document \in Seq(Operation)] ==
  IF document = <<>> THEN <<>>
  ELSE Append(ReduceMethods[Front(document)],
              Unique(Last(document).id, Last(document).verb, ToSet(ReduceMethods[Front(document)])))

---------------------------------------------------------------------------
(* The inputs of one method.                                               *)

SameParam(a, b) == a.wire = b.wire /\ a.location = b.location

\* Where the first parameter of that name and location stands, or 0.
Position(params, wire, location) ==
  LET found == {i \in DOMAIN params : params[i].wire = wire /\ params[i].location = location}
  IN  IF found = {} THEN 0 ELSE CHOOSE i \in found : \A j \in found : i <= j

\* A declaration replaces the one of its name and location.
LayOver(params, p) ==
  LET at == Position(params, p.wire, p.location)
  IN  IF at = 0 THEN Append(params, p) ELSE [params EXCEPT ![at] = p]

\* The operation's own declarations, laid over the shared ones.
OverrideParams(shared, own) ==
  LET laid[params \in Seq(Param)] ==
        IF params = <<>> THEN shared ELSE LayOver(laid[Front(params)], Last(params))
  IN  laid[own]

Synthesized(wire) == [wire |-> wire, location |-> "path", by |-> "template"]

Options[params \in Seq(Param)] ==
  IF params = <<>> THEN <<>>
  ELSE IF Last(params).location = "path" THEN Options[Front(params)]
  ELSE Append(Options[Front(params)], Last(params))

\* Positionals in the template's order, declared or not, and then the rest.
Ordered(template, params) ==
  [i \in 1 .. Len(template) |->
     LET at == Position(params, template[i], "path")
     IN  IF at = 0 THEN Synthesized(template[i]) ELSE params[at]]
  \o Options[params]

\* Prefixed until it is clear of what is reserved.
Prefixed(flag, n) == [i \in 1 .. n |-> Prefix] \o flag
Cleared(flag, reserved) ==
  Prefixed(flag, CHOOSE n \in 0 .. Cardinality(reserved) :
                   /\ Prefixed(flag, n) \notin reserved
                   /\ \A m \in 0 .. n - 1 : Prefixed(flag, m) \in reserved)

\* The flags, each by the ones before it.
Flags(params, reserved) ==
  LET flags[ps \in Seq(Param)] ==
        IF ps = <<>> THEN <<>>
        ELSE Append(flags[Front(ps)],
                    FirstFree(Cleared(Kebab(Last(ps).wire), reserved), ToSet(flags[Front(ps)]) \cup reserved, 1))
  IN  flags[params]

FinishParams(template, params, reserved) ==
  LET ordered == Ordered(template, params)
  IN  [params |-> ordered, flags |-> Flags(ordered, reserved)]

---------------------------------------------------------------------------
NoItem == [shared |-> <<>>, own |-> <<>>, template |-> <<>>, reserved |-> {}]

SurfaceInit == operations = <<>> /\ item = NoItem

\* A document with one operation more.
Describe ==
  /\ item = NoItem /\ Len(operations) < MaxOperations
  /\ \E op \in Operation : operations' = Append(operations, op)
  /\ UNCHANGED item

\* Parameters are told apart by name and location: none twice in one list.
IsNew(p, list) == \A i \in DOMAIN list : ~SameParam(list[i], p)

DeclareShared(p) ==
  /\ p.by = "item" /\ IsNew(p, item.shared)
  /\ item' = [item EXCEPT !.shared = Append(@, p)]

DeclareOwn(p) ==
  /\ p.by = "operation" /\ IsNew(p, item.own)
  /\ item' = [item EXCEPT !.own = Append(@, p)]

\* An operation with one parameter more, or another placeholder in its path, or a
\* consumer with another flag of its own.
Extend ==
  /\ operations = <<>>
  /\ \/ /\ Len(item.shared) + Len(item.own) < MaxDeclared
        /\ \E p \in Param : DeclareShared(p) \/ DeclareOwn(p)
     \/ /\ Len(item.template) < MaxPlaceholders
        /\ \E w \in Wires : item' = [item EXCEPT !.template = Append(@, w)]
     \/ \E f \in Reservable : item' = [item EXCEPT !.reserved = @ \cup {f}]
  /\ UNCHANGED operations

SurfaceNext == Describe \/ Extend

SurfaceSpec == SurfaceInit /\ [][SurfaceNext]_surfaceVars

SurfaceTypeOK ==
  /\ operations \in Seq(Operation) /\ Len(operations) <= MaxOperations
  /\ item = [shared |-> item.shared, own |-> item.own, template |-> item.template, reserved |-> item.reserved]
  /\ item.shared \in Seq(Param) /\ item.own \in Seq(Param) /\ item.template \in Seq(Wires)
  /\ \A f \in item.reserved : f \in Reservable

---------------------------------------------------------------------------
(* Properties.                                                             *)

Distinct(s) == \A i, j \in DOMAIN s : s[i] = s[j] => i = j

\* Every operation of a document has a command of its own, and every input of an
\* operation a flag of its own that the consumer has not taken ("a duplicate-id
\* panic the moment the command is constructed"); each placeholder has its
\* positional, in the path's order, and what both lists declare is the operation's.
SurfaceIsCallable ==
  LET m == FinishParams(item.template, OverrideParams(item.shared, item.own), item.reserved)
  IN  /\ Len(ReduceMethods[operations]) = Len(operations) /\ Distinct(ReduceMethods[operations])
      /\ Len(m.flags) = Len(m.params) /\ Distinct(m.flags)
      /\ \A i \in DOMAIN m.flags : m.flags[i] \notin item.reserved
      /\ \A i \in DOMAIN item.template :
           m.params[i].location = "path" /\ m.params[i].wire = item.template[i]
      /\ \A p \in ToSet(item.own) \cup ToSet(item.shared) :
           p.location # "path" =>
             \E i \in DOMAIN m.params :
               /\ SameParam(m.params[i], p)
               /\ p \in ToSet(item.own) => m.params[i] = p
               /\ \A j \in DOMAIN m.params : SameParam(m.params[j], p) => j = i
=============================================================================
