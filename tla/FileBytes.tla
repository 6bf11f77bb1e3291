----------------------------- MODULE FileBytes -----------------------------
(***************************************************************************)
(* The contents of a file as both file formats see them: a sequence of     *)
(* cells.  A cell is a fixed-width number, a character, or a CRC-32C with  *)
(* the cells it was taken over, so that two checksums are equal exactly if *)
(* they cover the same cells.  A position counts the cells in front of it. *)
(***************************************************************************)
EXTENDS Integers, Sequences, SequencesExt

Cell(n) == [number |-> n]

Cells(numbers) == [i \in DOMAIN numbers |-> Cell(numbers[i])]

Crc32c(cells) == [crc |-> cells]

\* what a checksum is when it is read as a number: more than any count or length
Garbage == 60

Number(cell) == IF "crc" \in DOMAIN cell THEN Garbage ELSE cell.number

\* ReadRaw or ReadBytes of n cells at pos succeeds
Has(file, pos, n) == pos + n <= Len(file)

NumberAt(file, pos) == Number(file[pos + 1])

NumbersAt(file, pos, n) == [i \in 1..n |-> NumberAt(file, pos + i - 1)]

\* the turns of a loop that reads count items of a cell or more each: by the last one
\* here it has read them all or run past the end
Turns(count, file) == [i \in 1..Min({count, Len(file) + 1}) |-> i]

\* a length, then that many characters
WriteString(s) == <<Cell(Len(s))>> \o Cells(s)

HasString(file, pos) == Has(file, pos, 1) /\ Has(file, pos + 1, NumberAt(file, pos))

ReadString(file, pos) == NumbersAt(file, pos + 1, NumberAt(file, pos))

AfterString(file, pos) == pos + 1 + NumberAt(file, pos)
=============================================================================
