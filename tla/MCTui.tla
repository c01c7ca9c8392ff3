------------------------------- MODULE MCTui -------------------------------
(***************************************************************************)
(* The parts of the terminal interface: tables, dialogs, the texts of a    *)
(* form, and copies of a selected row.                                     *)
(*                                                                         *)
(* Here they share no state.  A behaviour is one of a single part: the     *)
(* tables, the dialogs and the form stay in their first state while        *)
(* another part moves, and the variables of the copies are None.           *)
(***************************************************************************)
EXTENDS TuiTables, TuiDialogs, TuiForm

CONSTANTS Absent, Bad

VARIABLES
  part,  \* which part moves
  \* TuiCopies
  row, copy, edited, error, request, stored

copyVars == <<row, copy, edited, error, request, stored>>

\* Two job types, one of them new or gone.
OldOrNewTypes == {<<"b">>, <<"a", "b">>}

\* One field of each kind.
OneOfEachKind == <<"text", "list", "pairs", "bool">>

In == INSTANCE TuiInputs

Copies == INSTANCE TuiCopies WITH
  LongestWire <- 3, LongestInterval <- 2, MaxSchemaDepth <- 1,
  Trim <- In!Trim, IntTexts <- In!IntTexts, Floats <- In!Floats, TimeTexts <- {"instant", "date"},
  Defs <- In!Defs, Rows <- In!CopiedRows, Edits <- In!Edits, form <- copy

CopiesRest ==
  /\ row = None /\ copy = None /\ edited = None /\ error = None /\ request = None /\ stored = None

TuiInit ==
  /\ TablesInit /\ DialogsInit /\ FormInit
  /\ \/ part \in {"tables", "dialogs", "texts"} /\ CopiesRest
     \/ part = "copies" /\ Copies!Init

TuiNext ==
  /\ UNCHANGED part
  /\ \/ part = "tables" /\ TablesNext /\ UNCHANGED <<dialogVars, editor, copyVars>>
     \/ part = "dialogs" /\ DialogsNext /\ UNCHANGED <<tableVars, editor, copyVars>>
     \/ part = "texts" /\ FormNext /\ UNCHANGED <<tableVars, dialogVars, copyVars>>
     \/ part = "copies" /\ Copies!Next /\ UNCHANGED <<tableVars, dialogVars, editor>>

TuiSpec == TuiInit /\ [][TuiNext]_<<part, tableVars, dialogVars, editor, copyVars>>

-----------------------------------------------------------------------------
(* The properties of the parts, besides those of TuiTables and TuiDialogs *)

\* TuiCopies: a copy creates what its form shows, which is what the original was.
CopiesAgree == part = "copies" => Copies!CopiesAgree
=============================================================================
