------------------------------ MODULE EditForm ------------------------------
(***************************************************************************)
(* From the details of a listing to the edit form, a proposal and a merge. *)
(*                                                                         *)
(* The details are three statements on three connections: the row with its *)
(* version, the opening hours, the security features.  A merge may come    *)
(* between any two of them.  The form posts the version it was given with  *)
(* everything it shows; the listing takes over the whole form.             *)
(***************************************************************************)
EXTENDS Naturals, Sequences

CONSTANTS
  Editors,       \* people with an edit form open
  MaxMerges      \* bound: versions of the listing

ASSUME EditFormConstantsOK == MaxMerges \in Nat

VARIABLES
  listing,       \* version, whether it is on view, and what its parts hold
  editing,       \* editor |-> where the form is and what it holds
  merged         \* what the last merge replaced, and by whose form

editVars == <<listing, editing, merged>>

Parts == {"row", "hours", "security"}
Values == 0..MaxMerges + 1       \* a part holds the number of the edit it came from
NoForm == [pc |-> "idle", version |-> 0, parts |-> [p \in Parts |-> 0], touched |-> "row"]

\* Versions, parts and forms have their types.
EditFormTypeOK ==
  /\ listing \in [version : 0..MaxMerges, active : BOOLEAN, parts : [Parts -> Values]]
  /\ editing \in [Editors -> [pc : {"idle", "1", "2", "3", "form", "checked", "pending"},
                              version : 0..MaxMerges, parts : [Parts -> Values], touched : Parts]]
  /\ merged \in [by : Parts, old : [Parts -> Values], new : [Parts -> Values]]
----------------------------------------------------------------------------
\* Mutant: the row, and with it the version, is read last.
MutReadOrder == <<"hours", "security", "row">>

\* SqlxParkingDetailsReader::details
ReadOrder == <<"row", "hours", "security">>

Turns == <<"1", "2", "3">>

\* What a statement brings: its part of the listing as it is now, and with the
\* row the version.
Read(f, p) ==
  [f EXCEPT !.parts[p] = listing.parts[p],
            !.version = IF p = "row" THEN listing.version ELSE @]

\* parking_edit_page: GetParkingDetails::execute begins.
OpenEditForm(e) ==
  /\ editing[e].pc = "idle"
  /\ editing' = [editing EXCEPT ![e] = [NoForm EXCEPT !.pc = "1"]]
  /\ UNCHANGED <<listing, merged>>

\* One statement after another; a listing that is not on view has no form.
ReadPart(e) ==
  \E i \in 1..3 :
    /\ editing[e].pc = Turns[i]
    /\ editing' = [editing EXCEPT ![e] =
         IF ReadOrder[i] = "row" /\ ~listing.active THEN NoForm
         ELSE [Read(@, ReadOrder[i]) EXCEPT !.pc = IF i = 3 THEN "form" ELSE Turns[i + 1]]]
    /\ UNCHANGED <<listing, merged>>

\* parking_edit_post: a form that does not parse comes back with the version
\* and the values that were posted (contribution_edit_error), a form of an old
\* version is replaced by fresh details, and a listing that is gone is a 404.
\* Otherwise apply_parking_edit has compared the version without a lock.
PostForm(e) ==
  /\ editing[e].pc = "form"
  /\ LET f == editing[e] IN
     editing' = [editing EXCEPT ![e] =
       IF ~listing.active THEN NoForm
       ELSE IF f.version # listing.version THEN [NoForm EXCEPT !.pc = "1"]
       ELSE [f EXCEPT !.pc = "checked"]]
  /\ UNCHANGED <<listing, merged>>

\* create_proposal: version and state again, under the lock of the row.
Fileable(f) == f.version = listing.version

File(e, p) ==
  /\ editing[e].pc = "checked"
  /\ editing' = [editing EXCEPT ![e] =
       IF ~listing.active THEN NoForm
       ELSE IF ~Fileable(@) THEN [NoForm EXCEPT !.pc = "1"]
       ELSE [@ EXCEPT !.pc = "pending", !.version = listing.version, !.touched = p,
                      !.parts[p] = listing.version + 1]]
  /\ UNCHANGED <<listing, merged>>

\* supersede_pending_proposals
Superseding == [f \in Editors |-> IF editing[f].pc = "pending" THEN NoForm ELSE editing[f]]

\* approve_in_transaction, write_hours, write_security: a proposal of the current
\* version replaces every part; the other proposals of that version lapse.
Merge(e) ==
  /\ editing[e].pc = "pending" /\ listing.active /\ listing.version < MaxMerges
  /\ editing[e].version = listing.version
  /\ listing' = [listing EXCEPT !.version = @ + 1, !.parts = editing[e].parts]
  /\ merged' = [by |-> editing[e].touched, old |-> listing.parts, new |-> editing[e].parts]
  /\ editing' = Superseding

\* A proposal of another kind moves the listing: the form shows no position,
\* but the version goes on.
Move ==
  /\ listing.active /\ listing.version < MaxMerges
  /\ listing' = [listing EXCEPT !.version = @ + 1]
  /\ editing' = Superseding
  /\ UNCHANGED merged

\* set_parking_state: taken off view, and shown again.
SetOnView ==
  /\ listing.version < MaxMerges
  /\ listing' = [listing EXCEPT !.version = @ + 1, !.active = ~@]
  /\ editing' = Superseding
  /\ UNCHANGED merged
----------------------------------------------------------------------------
EditFormInit ==
  /\ listing = [version |-> 0, active |-> TRUE, parts |-> [p \in Parts |-> 0]]
  /\ editing = [e \in Editors |-> NoForm]
  /\ merged = [by |-> "row", old |-> [p \in Parts |-> 0], new |-> [p \in Parts |-> 0]]

EditFormNext ==
  \/ \E e \in Editors : OpenEditForm(e) \/ ReadPart(e) \/ PostForm(e) \/ Merge(e)
  \/ \E e \in Editors, p \in Parts : File(e, p)
  \/ Move \/ SetOnView

EditFormSpec == EditFormInit /\ [][EditFormNext]_editVars
----------------------------------------------------------------------------
\* Properties.

\* A merge changes only the part its editor changed, although the form that is
\* taken over holds all of them and was read in three statements with merges of
\* others in between: nobody's accepted work is undone by a form that was torn.
NothingElseIsUndone ==
  \A p \in Parts : p # merged.by => merged.new[p] = merged.old[p]

\* Forms that were open at once do not undo each other.
EditsAreSound == EditFormTypeOK /\ NothingElseIsUndone

\* The inductive invariant behind it: whatever merges come between the three
\* statements, what a form of the current version has read is what the listing
\* holds, except for what its editor has changed.
HeldBy(f) ==
  CASE f.pc \in {"idle", "1"}       -> {}
    [] f.pc = "2"                   -> {"row"}
    [] f.pc = "3"                   -> {"row", "hours"}
    [] f.pc \in {"form", "checked"} -> Parts
    [] f.pc = "pending"             -> Parts \ {f.touched}

FormsAreCurrent ==
  \A e \in Editors :
    /\ editing[e].version <= listing.version
    /\ editing[e].version = listing.version =>
         \A p \in HeldBy(editing[e]) : editing[e].parts[p] = listing.parts[p]

EditFormInv == EditsAreSound /\ FormsAreCurrent
=============================================================================
