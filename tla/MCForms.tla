------------------------------- MODULE MCForms -------------------------------
(***************************************************************************)
(* What KeyNest takes from its forms, in one run: records on their way     *)
(* from the form to the store and back (RecordInput), and new master       *)
(* passwords (PasswordPolicy).  The parts share no variable: a behaviour   *)
(* follows one, and the others stay as they began.                         *)
(***************************************************************************)
EXTENDS Naturals, Sequences

CONSTANTS Ids, Words, Accented, MaxText, MaxList, MaxStamp,      \* RecordInput
          Main,                    \* the record that is tried with every form
          Begun, DatePieces, ChoicePieces, Common, Keyboard,     \* PasswordPolicy
          MaxDate, MaxLength

VARIABLES part, kind, clock, rows, typed, shown, password

recordVars == <<kind, clock, rows, typed, shown>>
formsVars == <<part, recordVars, password>>

-----------------------------------------------------------------------------
(* The instances.                                                          *)

Entry == INSTANCE RecordInput WITH Kinds <- {"credential", "note"}

Policy == INSTANCE PasswordPolicy WITH
    Start <- Begun \cup {<<>>}, Pieces <- DatePieces \cup ChoicePieces

\* Characters are codes: "admin", "abcd", "ASDF", "abc123", "asdf".
CommonWords == {<<97, 100, 109, 105, 110>>, <<97, 98, 99, 49, 50, 51>>}
KeyboardWords == {<<97, 115, 100, 102>>}

\* What a date is made of: a digit, both separators, the underscore, a blank and the
\* beginning of a year.
PiecesOfDates == {<<49>>, <<47>>, <<45>>, <<95>>, <<32>>, <<50, 48>>}

\* Something strong or something monotonous to begin with, and what weakens or
\* strengthens it.
SomeBegun == {<<84, 114, 48, 117, 98, 38>>, <<120, 121, 120, 120, 121, 121, 120>>,
              <<97, 100, 109, 105, 110, 49, 57, 57>>}
PiecesOfChoices == {<<49>>, <<97, 97>>, <<49, 47, 50>>, <<35, 233, 81>>, <<97, 100, 109, 105, 110>>,
                    <<97, 98, 99, 100>>, <<65, 83, 68, 70>>}

ASSUME FormsAssumption ==
    /\ Entry!InputAssumption /\ Main \in Ids
    /\ Policy!PasswordPolicyAssumption

-----------------------------------------------------------------------------
(* A behaviour follows one part.                                           *)

FormsInit ==
    /\ part \in {"forms", "edits", "dates", "choices"}
    /\ Entry!Init
    /\ part # "forms" => kind = "note"
    /\ part \notin {"forms", "edits"} => clock = 0
    /\ password \in IF part = "choices" THEN Begun ELSE {<<>>}

\* One record, with every kind of form.
FormStep == part = "forms" /\ Entry!Next /\ \A id \in Ids \ {Main} : rows'[id] = rows[id]

\* All records, with forms that differ in the name alone.
EditStep == /\ part = "edits" /\ Entry!Next
            /\ \E name \in Entry!Text : typed' = [Entry!Plain EXCEPT !.name = name]

DateStep == /\ part = "dates"
            /\ \E piece \in DatePieces : Policy!Type(piece)
            /\ Len(password') <= MaxDate

ChoiceStep == part = "choices" /\ \E piece \in ChoicePieces : Policy!Type(piece)

FormsNext ==
    /\ UNCHANGED part
    /\ \/ (FormStep \/ EditStep) /\ UNCHANGED password
       \/ (DateStep \/ ChoiceStep) /\ UNCHANGED recordVars

FormsSpec == FormsInit /\ [][FormsNext]_formsVars

-----------------------------------------------------------------------------
(* What is checked of each part; what it means is said where it is defined. *)

\* What was accepted reads back unchanged and under its own id (RecordInput).
SavedIsReadable == Entry!TypeOK /\ Entry!SavedIsReadable /\ Entry!ShownIsOwn

\* An edit loses nothing that was entered, and is later than what it replaces
\* (RecordInput).
EditsKeepWhatWasEntered == [][Entry!LosesNothing /\ Entry!MovesForward]_formsVars

\* The form and the service decide alike on a new master password, in particular on
\* whether there is a date in it (PasswordPolicy).
FormAndServiceAgree == Policy!DatesAgree /\ Policy!FormAndServiceAgree
=============================================================================
