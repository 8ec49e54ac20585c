----------------------------- MODULE RecordInput -----------------------------
(***************************************************************************)
(* What is entered for a credential or a note, what is saved of it, and    *)
(* what comes back.  vault/model.rs and notes/model.rs normalize an input  *)
(* before it is encrypted; vault/crypto.rs and notes/crypto.rs normalize   *)
(* once more what they decrypt and call the row damaged when that fails,   *)
(* so a saved input must be one that normalization accepts and leaves as   *)
(* it is.  Every row is sealed for its own id.                             *)
(*                                                                         *)
(* A text is its length and whether white space surrounds it; a host is    *)
(* its labels, where "" stands for the nothing between two dots, or after  *)
(* the last one.  Parsing a host as a URL is external: it lower-cases it.  *)
(***************************************************************************)
EXTENDS Integers, Sequences, FiniteSets, SequencesExt

CONSTANTS Kinds,      \* "credential", "note"
          Ids,        \* two records of one store
          Words,      \* what a tag or a label may say
          Accented,   \* words whose letters are outside ASCII
          MaxText,    \* stands for each length limit
          MaxList,    \* stands for the limits of 20 hosts and 20 tags
          MaxStamp    \* stands for the largest millisecond timestamp

InputAssumption ==
    /\ Kinds \subseteq {"credential", "note"}
    /\ "" \notin Words
    /\ Accented \subseteq Words
    /\ {MaxText, MaxList, MaxStamp} \subseteq Nat \ {0}

VARIABLES kind,      \* "credential" or "note"
          clock,     \* the system clock, which may be set back
          rows,      \* per id: the sealed row, or NoRow
          typed,     \* the form as it stands in the dialog
          shown      \* what the last command answered

vars == <<kind, clock, rows, typed, shown>>

Text == [length : 0..MaxText + 1, padded : BOOLEAN]
Tag == {t \in [word : Words \cup {""}, upper : BOOLEAN, padded : BOOLEAN] :
          t.word = "" => ~t.upper}
Label == [word : Words \cup {""}, upper : BOOLEAN]

Form == [name : Text, password : Text, website : Text,
         hosts : Seq(Seq(Label)), tags : Seq(Tag)]

\* A form with nothing unusual in it.
Plain == [name |-> [length |-> 1, padded |-> FALSE], password |-> [length |-> 1, padded |-> FALSE],
          website |-> [length |-> 0, padded |-> FALSE], hosts |-> <<>>, tags |-> <<>>]

Low(w) == [word |-> w, upper |-> FALSE]
Up(w) == [word |-> w, upper |-> TRUE]

\* Hosts as they may be typed: with dots and letter case, or not a host at all.
TypedHosts(w) ==
    {<<Low(w)>>, <<Up(w)>>, <<Low(w), Low("")>>, <<Low(w), Low(""), Low("")>>, <<Low("")>>, <<Low(""), Low("")>>,
     <<Low(""), Low(w)>>, <<Low(w), Low(w)>>}

\* Forms with one unusual field each.  White space is tried on one tag alone.
Forms ==
    {[Plain EXCEPT !.name = t] : t \in Text}
    \cup {[Plain EXCEPT !.password = t] : t \in Text}
    \cup {[Plain EXCEPT !.website = t] : t \in Text}
    \cup {[Plain EXCEPT !.hosts = hs] :
            hs \in UNION {UNION {[1..n -> TypedHosts(w)] : w \in Words} : n \in 1..2}}
    \cup {[Plain EXCEPT !.tags = <<t>>] : t \in Tag}
    \cup {[Plain EXCEPT !.tags = ts] :
            ts \in UNION {[1..n -> {t \in Tag : ~t.padded}] : n \in 2..MaxList}}
    \cup {[Plain EXCEPT !.tags = [i \in 1..MaxList + 1 |-> t]] : t \in Tag}

NoRow == [sealedFor |-> "nobody"]
Nothing == [result |-> "nothing"]

---------------------------------------------------------------------------
(* Normalization.                                                          *)

Trimmed(t) == [t EXCEPT !.padded = FALSE]
CharacterCount(t) == t.length + (IF t.padded THEN 2 ELSE 0)
IsBlank(t) == t.length = 0

SameTag(a, b) == /\ a.word = b.word
                 /\ a.upper = b.upper \/ kind = "credential" \/ a.word \notin Accented

\* The first of several that say the same stays, in the order they came in.
Distinct(s, firsts) ==
    LET places == 1..Cardinality(firsts)
        kept == CHOOSE order \in [places -> firsts] :
                    \A m, n \in places : m < n => order[m] < order[n]
    IN [n \in places |-> s[kept[n]]]

LowerCase(h) == [i \in DOMAIN h |-> [h[i] EXCEPT !.upper = FALSE]]

\* Mutant: empty labels are looked for before the final dot goes.
CanonicalLoginHostLate(h) ==
    LET host == IF Len(h) > 1 /\ Last(h).word = "" THEN Front(h) ELSE h
    IN [host |-> LowerCase(host), valid |-> h # <<Low("")>> /\ h[1].word # ""]

\* One final dot is taken off; no empty label may be left.
CanonicalLoginHost(h) ==
    LET host == IF Len(h) > 1 /\ Last(h).word = "" THEN Front(h) ELSE h
    IN [host |-> LowerCase(host), valid |-> \A i \in DOMAIN host : host[i].word # ""]

CanonicalHosts(hs) ==
    LET s == [i \in DOMAIN hs |-> CanonicalLoginHost(hs[i]).host]
    IN Distinct(s, {i \in DOMAIN s : \A j \in 1..i - 1 : s[j] # s[i]})

CanonicalTags(ts) ==
    LET s == [i \in DOMAIN ts |-> Trimmed(ts[i])]
    IN Distinct(s, {i \in DOMAIN s : \A j \in 1..i - 1 : ~SameTag(s[j], s[i])})

TextIsValid(t) == ~IsBlank(t) /\ CharacterCount(t) <= MaxText

\* Name and website are trimmed before they are measured; the password is
\* measured and kept as it is.
NormalizedCredential(form) ==
    [form |-> [name |-> Trimmed(form.name), password |-> form.password,
               website |-> Trimmed(form.website),
               hosts |-> CanonicalHosts(form.hosts), tags |-> CanonicalTags(form.tags)],
     valid |-> /\ TextIsValid(Trimmed(form.name))
               /\ TextIsValid(form.password)
               /\ CharacterCount(Trimmed(form.website)) <= MaxText
               /\ Len(form.hosts) <= MaxList
               /\ \A i \in DOMAIN form.hosts : CanonicalLoginHost(form.hosts[i]).valid
               /\ Len(form.tags) <= MaxList
               /\ \A i \in DOMAIN form.tags : form.tags[i].word # ""]

\* A note has a title, a content and tags.
NormalizedNote(form) ==
    [form |-> [Plain EXCEPT !.name = Trimmed(form.name), !.password = form.password,
                            !.tags = CanonicalTags(form.tags)],
     valid |-> /\ TextIsValid(Trimmed(form.name))
               /\ CharacterCount(form.password) <= MaxText
               /\ Len(form.tags) <= MaxList
               /\ \A i \in DOMAIN form.tags : form.tags[i].word # ""]

Normalized(form) == IF kind = "note" THEN NormalizedNote(form) ELSE NormalizedCredential(form)

---------------------------------------------------------------------------
(* The commands.                                                           *)

Stored(id, form, created, updated) ==
    [sealedFor |-> id, form |-> form, createdAt |-> created, updatedAt |-> updated]

Init ==
    /\ kind \in Kinds
    /\ clock \in 0..MaxStamp
    /\ rows = [id \in Ids |-> NoRow]
    /\ typed = Plain
    /\ shown = Nothing

Answers(result) == shown' = [result |-> result]

\* A row opens under the id it was sealed for, and only if what is in it passes
\* normalization.
Decrypt(id) == [valid |-> rows[id].sealedFor = id /\ Normalized(rows[id].form).valid,
                form |-> Normalized(rows[id].form).form]

Save(id, created, updated) ==
    /\ rows' = [rows EXCEPT ![id] = Stored(id, Normalized(typed).form, created, updated)]
    /\ typed' = Plain
    /\ Answers("saved")
    /\ UNCHANGED <<kind, clock>>

Refuse(why) == Answers(why) /\ UNCHANGED <<kind, clock, rows, typed>>

Create(id) ==
    /\ rows[id] = NoRow
    /\ IF Normalized(typed).valid THEN Save(id, clock, clock) ELSE Refuse("invalid")

\* Mutant: an edit is dated by the clock alone.
NextStampByClock(id) == clock

\* An edit is later than the one before, whatever the clock says.
NextStamp(id) == Max({clock, rows[id].updatedAt + 1})

Update(id) ==
    IF ~Normalized(typed).valid THEN Refuse("invalid")
    ELSE IF rows[id] = NoRow THEN Refuse("NotFound")
    ELSE IF ~Decrypt(id).valid \/ rows[id].updatedAt = MaxStamp THEN Refuse("DataDamaged")
    ELSE Save(id, rows[id].createdAt, NextStamp(id))

Get(id) ==
    IF rows[id] = NoRow THEN Refuse("NotFound")
    ELSE IF ~Decrypt(id).valid THEN Refuse("DataDamaged")
    ELSE /\ shown' = [result |-> "shown", id |-> id, form |-> Decrypt(id).form]
         /\ UNCHANGED <<kind, clock, rows, typed>>

\* The dialog is filled in, or filled with what is shown, or closed.
Fill(form) == typed' = form /\ shown' = Nothing /\ UNCHANGED <<kind, clock, rows>>

Type == typed = Plain /\ \E form \in Forms : Fill(form)
EditShown == typed = Plain /\ shown.result = "shown" /\ Fill(shown.form)
Cancel == typed # Plain /\ Fill(Plain)

\* The clock is set, forward or back.
ClockIsSet == /\ clock' \in 0..MaxStamp
              /\ shown' = Nothing
              /\ UNCHANGED <<kind, rows, typed>>

\* The file is tampered with: one row is copied over another.
RowIsCopied(from, to) == /\ rows[from] # NoRow
                         /\ rows[to] # NoRow
                         /\ rows' = [rows EXCEPT ![to] = rows[from]]
                         /\ shown' = Nothing
                         /\ UNCHANGED <<kind, clock, typed>>

Next ==
    \/ \E id \in Ids : Create(id) \/ Update(id) \/ Get(id)
    \/ Type
    \/ EditShown \/ Cancel
    \/ ClockIsSet
    \/ \E from, to \in Ids : RowIsCopied(from, to)

Spec == Init /\ [][Next]_vars

---------------------------------------------------------------------------
(* Properties.                                                             *)

Row == [sealedFor : Ids, form : Form, createdAt : 0..MaxStamp, updatedAt : 0..MaxStamp]

TypeOK == /\ kind \in Kinds
          /\ clock \in 0..MaxStamp
          /\ rows \in [Ids -> {NoRow} \cup Row]
          /\ typed \in Form
          /\ \/ shown \in [result : {"nothing", "saved", "invalid", "NotFound", "DataDamaged"}]
             \/ shown \in [result : {"shown"}, id : Ids, form : Form]

\* What was accepted can be read again, unchanged: decryption normalizes once more
\* and reports damage when that fails
\* (vault/crypto.rs:115-118), and one such row makes the whole list unreadable.
SavedIsReadable ==
    \A id \in Ids :
        (rows[id] # NoRow /\ rows[id].sealedFor = id)
            => Decrypt(id) = [valid |-> TRUE, form |-> rows[id].form]

\* Nothing entered is lost but white space and repetitions: each tag and host
\* entered is in what is saved, none of them twice, and the password is exact.
Represents(form, saved) ==
    /\ saved.password = form.password
    /\ \A i \in DOMAIN form.tags : \E j \in DOMAIN saved.tags : SameTag(form.tags[i], saved.tags[j])
    /\ \A i, j \in DOMAIN saved.tags : SameTag(saved.tags[i], saved.tags[j]) => i = j
    /\ kind = "credential" =>
          \A i \in DOMAIN form.hosts : \E j \in DOMAIN saved.hosts :
              LowerCase(form.hosts[i]) \in {saved.hosts[j], Append(saved.hosts[j], Low(""))}

Saves(id) == rows'[id] # rows[id] /\ shown'.result = "saved"

LosesNothing == \A id \in Ids : Saves(id) => Represents(typed, rows'[id].form)

\* An edit is always later than the version it replaces, even when the clock was
\* set back, so that the list shows records in the order they were changed.
MovesForward ==
    \A id \in Ids : (Saves(id) /\ rows[id] # NoRow) => rows'[id].updatedAt > rows[id].updatedAt

\* No record is ever shown under the id of another, even when rows were moved about
\* in the file (the id is part of what is authenticated).
ShownIsOwn == shown.result = "shown" => rows[shown.id].sealedFor = shown.id
=============================================================================
