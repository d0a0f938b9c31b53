----------------------------- MODULE CsvUpload -----------------------------
(***************************************************************************)
(* The CSV page (app/asset-upload/csv): its steps, lib/csv-parser, which   *)
(* reads the file, components/BulkEditGrid, in which the rows are          *)
(* corrected, and lib/asset-type-detector, which guesses the type of a     *)
(* symbol.                                                                 *)
(*                                                                         *)
(* The page keeps parsedData, the grid its own `rows', and each has an     *)
(* effect that copies it over the other: after every render both run.      *)
(* What an effect or a handler sets is shown by the next render (`next').  *)
(*                                                                         *)
(* A row is its number in the file, whether it would pass validateRows and *)
(* whether its type is the detected one or was chosen by the user.         *)
(***************************************************************************)
EXTENDS Integers, Sequences

CONSTANTS
  MaxRows,    \* 100 in the code: rows of a file
  MaxEdits    \* bound on the user's changes in the grid

ASSUME CsvAssumption == MaxRows \in Nat \ {0} /\ MaxEdits \in Nat

VARIABLES
  csvStep,   \* currentStep: 1 to 3, and 4 for the grid
  file,      \* selectedFile: "none", "chosen"
  parsing,   \* isParsingCSV: the rows the file has, -1 when none is parsed
  data,      \* parsedData of the page
  grid,      \* rows of the grid
  next,      \* what the coming render shows: both lists, or <<>>
  dirty,     \* effects are still to run after the last render
  faulty,    \* validationErrors, by position
  handed,    \* what was handed over to the entry page, once it was
  edits,     \* bound
  fileRows   \* history: how many rows the last file that was taken had

csvVars == <<csvStep, file, parsing, data, grid, next, dirty, faulty, handed, edits, fileRows>>

Row   == [no : 0 .. MaxRows, ok : BOOLEAN, type : {"detected", "chosen"}]
IsRowList(s) == Len(s) <= MaxRows + MaxEdits /\ \A i \in DOMAIN s : s[i] \in Row

CsvTypeOK ==
  /\ csvStep \in 1 .. 4
  /\ file \in {"none", "chosen"}
  /\ parsing \in -1 .. MaxRows + 1
  /\ IsRowList(data) /\ IsRowList(grid)
  /\ next = <<>> \/ (IsRowList(next[1]) /\ IsRowList(next[2]))
  /\ dirty \in BOOLEAN
  /\ \A i \in faulty : i \in Nat
  /\ handed = <<>> \/ IsRowList(handed[1])
  /\ edits \in 0 .. MaxEdits /\ fileRows \in 0 .. MaxRows

CsvInit ==
  /\ csvStep = 1 /\ file = "none" /\ parsing = -1
  /\ data = <<>> /\ grid = <<>> /\ next = <<>> /\ dirty = FALSE
  /\ faulty = {} /\ handed = <<>> /\ edits = 0 /\ fileRows = 0

Here == handed = <<>>

-----------------------------------------------------------------------------
(* The file *)

\* handleFileSelect of a CSV file, chosen or dropped, in step 3; anything else
\* is an alert.  `n' is how many rows parseCSV will keep.
FileSelect ==
  /\ Here /\ csvStep = 3 /\ parsing = -1
  /\ parsing' \in 0 .. MaxRows + 1
  /\ file' = "chosen"
  /\ UNCHANGED <<csvStep, data, grid, next, dirty, faulty, handed, edits, fileRows>>

\* removeFile: the rows that were read stay.
FileRemove ==
  /\ Here /\ csvStep = 3 /\ file = "chosen"
  /\ file' = "none"
  /\ UNCHANGED <<csvStep, parsing, data, grid, next, dirty, faulty, handed, edits, fileRows>>

\* Variant with a bug: a last line without its line break is left out.
KeptRowsButLast(n) == [i \in 1 .. n - 1 |-> [no |-> i, ok |-> TRUE, type |-> "detected"]]

\* parseCSV keeps rows with a symbol, a quantity and a price.
KeptRows(n) == [i \in 1 .. n |-> [no |-> i, ok |-> TRUE, type |-> "detected"]]

\* No row and more than 100 are errors, as is a file that is empty, too large,
\* too short or without the headers.
Fits(n) == n \in 1 .. MaxRows

\* The parser is done: the grid is shown, whatever step was shown since, and
\* mounts with an empty list of its own.
FileParsed ==
  /\ Here /\ parsing >= 0
  /\ parsing' = -1
  /\ \/ /\ Fits(parsing)
        /\ data' = KeptRows(parsing) /\ fileRows' = parsing
        /\ csvStep' = 4
        /\ grid' = IF csvStep = 4 THEN grid ELSE <<>>
        /\ dirty' = TRUE /\ next' = <<>>
        /\ UNCHANGED file
     \/ /\ file' = "none"
        /\ UNCHANGED <<csvStep, data, grid, dirty, next, fileRows>>
  /\ UNCHANGED <<faulty, handed, edits>>

-----------------------------------------------------------------------------
(* The grid *)

\* detectAsset, applied to every row.
Detect(s) == [i \in DOMAIN s |-> [s[i] EXCEPT !.type = "detected"]]

\* The effects on data and on rows, after a render that changed both.
GridEffects ==
  /\ Here /\ csvStep = 4 /\ dirty
  /\ next' = <<grid, Detect(data)>>
  /\ dirty' = FALSE
  /\ UNCHANGED <<csvStep, file, parsing, data, grid, faulty, handed, edits, fileRows>>

\* The render that follows: every list is a new one, so both effects are due.
GridRender ==
  /\ Here /\ csvStep = 4 /\ next # <<>>
  /\ data' = next[1] /\ grid' = next[2]
  /\ next' = <<>> /\ dirty' = TRUE
  /\ UNCHANGED <<csvStep, file, parsing, faulty, handed, edits, fileRows>>

\* A handler runs between two renders, after the effects of the first.
Edits(rows) ==
  /\ Here /\ csvStep = 4 /\ ~dirty
  /\ edits < MaxEdits /\ edits' = edits + 1
  /\ next' = <<next[1], rows>>
  /\ UNCHANGED <<csvStep, file, parsing, data, grid, dirty, faulty, handed, fileRows>>

Coming == next[2]

\* handleCellChange, on the rows the coming render has: the cell is one that was
\* shown.  Beyond their end a row of that cell only comes into being.
CellChange ==
  /\ Here /\ csvStep = 4 /\ ~dirty
  /\ \E i \in DOMAIN grid :
    LET rows == IF i \in DOMAIN Coming THEN Coming
                ELSE [j \in 1 .. i |-> IF j \in DOMAIN Coming THEN Coming[j]
                                       ELSE [no |-> 0, ok |-> FALSE, type |-> "detected"]] IN
    \/ \E ok \in BOOLEAN : Edits([rows EXCEPT ![i].ok = ok])
    \/ Edits([rows EXCEPT ![i].type = "chosen"])

\* handleAddRow, on the rows that were shown.
AddRow == Edits(Append(grid, [no |-> 0, ok |-> FALSE, type |-> "detected"]))

\* handleDeleteRow, too.
DeleteRow ==
  \E i \in DOMAIN grid : Edits(SubSeq(grid, 1, i - 1) \o SubSeq(grid, i + 1, Len(grid)))

-----------------------------------------------------------------------------
(* The page *)

\* The steps in the sidebar are always open.  Leaving the grid unmounts it.
CsvStepIs(n) ==
  /\ Here /\ n # csvStep
  /\ csvStep' = n
  /\ grid' = <<>> /\ next' = <<>> /\ dirty' = (n = 4)
  /\ UNCHANGED <<file, parsing, data, faulty, handed, edits, fileRows>>

CsvSidebar == \E n \in 1 .. 3 : CsvStepIs(n)

\* handleNext: step 3 wants a file, which needs not be the one that was read.
CsvNextStep ==
  /\ csvStep < 4 /\ parsing = -1
  /\ csvStep = 3 => file = "chosen"
  /\ CsvStepIs(csvStep + 1)

CsvPrevious == csvStep > 1 /\ CsvStepIs(csvStep - 1)

\* validateRows.
Invalid(s) == {i \in DOMAIN s : ~s[i].ok}

\* handleBulkSubmit: no row is an alert, as are rows that are not valid.
BulkSubmit ==
  /\ Here /\ csvStep = 4 /\ data # <<>>
  /\ faulty' = Invalid(data)
  /\ handed' = IF faulty' = {} THEN <<data>> ELSE <<>>
  /\ UNCHANGED <<csvStep, file, parsing, data, grid, next, dirty, edits, fileRows>>

-----------------------------------------------------------------------------
(* Specification *)

CsvNext ==
  \/ FileSelect \/ FileRemove \/ FileParsed
  \/ GridEffects \/ GridRender \/ CellChange \/ AddRow \/ DeleteRow
  \/ CsvSidebar \/ CsvNextStep \/ CsvPrevious \/ BulkSubmit

CsvSpec == CsvInit /\ [][CsvNext]_csvVars

-----------------------------------------------------------------------------
(* Properties *)

\* Whatever the two lists do to each other, only rows that pass validateRows are
\* handed over, at least one, and no row of the file twice.
HandedRowsAreValid ==
  handed # <<>> =>
    /\ handed[1] # <<>>
    /\ \A i \in DOMAIN handed[1] : handed[1][i].ok
    /\ \A i, j \in DOMAIN handed[1] :
         handed[1][i].no = handed[1][j].no /\ handed[1][i].no # 0 => i = j

\* An untouched file that the parser took is handed over whole, never a part.
HandedWhole ==
  handed # <<>> /\ edits = 0 =>
    /\ Len(handed[1]) = fileRows /\ fileRows <= MaxRows
    /\ \A i \in DOMAIN handed[1] : handed[1][i].no = i

\* What leaves the upload page, whichever of the two lists was copied last.
CsvInv == CsvTypeOK /\ HandedRowsAreValid /\ HandedWhole

=============================================================================
