-------------------------- MODULE GroupDefinition --------------------------
(***************************************************************************)
(* service/groupDefinition.go: the texts that define groups and the names  *)
(* a group may have.  A name is the sequence of its bytes.  A text is what *)
(* strings.Fields makes of it: its first field, <<>> if it is blank, and   *)
(* the fields that follow.                                                 *)
(***************************************************************************)
EXTENDS Naturals, Sequences

Hyphen == 45       \* '-'
Digits == 48 .. 57 \* '0' to '9'
Lowercase == 97 .. 122 \* 'a' to 'z'

\* validCharacters as init fills it: the loops end before '9' and before 'z'.
GroupLeading == 97 .. 121
GroupTrailing == (48 .. 56) \union GroupLeading
Group == GroupTrailing \union {Hyphen}

\* Mutant: the loop over the inner bytes ends one too early.
ValidateShort(name) ==
  /\ name # <<>>
  /\ name[1] \in GroupLeading
  /\ name[Len(name)] \in GroupTrailing
  /\ \A i \in 2 .. Len(name) - 2 : name[i] \in Group

\* validateGroupName returns no error.
ValidGroupName(name) ==
  /\ name # <<>>
  /\ name[1] \in GroupLeading
  /\ name[Len(name)] \in GroupTrailing
  /\ \A i \in 2 .. Len(name) - 1 : name[i] \in Group

\* ParseGroupDefinition returns no error: the first field is the name, and
\* there is at least one service.
ParsesAsGroup(text) == text.services # <<>> /\ ValidGroupName(text.name)

(***************************************************************************)
(* The rules, as the texts of the errors state them.                       *)
(***************************************************************************)

\* "group names may only start with a lowercase character", "may only end with
\* a lowercase or digit character", "may only consist of lowercase, hyphen, or
\* digit characters".
DocumentedName(name) ==
  /\ name # <<>>
  /\ name[1] \in Lowercase
  /\ name[Len(name)] \in Lowercase \union Digits
  /\ \A i \in DOMAIN name : name[i] \in Lowercase \union Digits \union {Hyphen}

=============================================================================
