------------------------------ MODULE SortCols ------------------------------
(****************************************************************************)
(* The sort-column store (RRSC): the writers of rust/src/build.rs and the   *)
(* reader of rust/src/sortcols.rs.  The header and each entry of the column *)
(* table take one cell, the name blob one cell per name, and a value takes  *)
(* the cells of its type, its value in the first of them.                   *)
(****************************************************************************)
EXTENDS PostingBytes

CONSTANTS
    ColumnGap,      \* SPAN_GAP of sortcols.rs, in cells
    BadColumns,     \* the writer's error
    BadQuery        \* the reader's errors on its arguments

ASSUME ColumnAssumption == ColumnGap \in Nat

\* ValueType::width, in units of two bytes.
Width(type) == IF type = "u16" THEN 1 ELSE 2
Cells(type, values) ==
    FlattenSeq(<< >> \o [i \in DOMAIN values |-> << values[i] >> \o [j \in 1 .. Width(type) - 1 |-> 0]])

\* write_sortcols: columns of [name, type, values], all of one length.
WriteColumns(cols) ==
    LET rows == IF cols = << >> THEN 0 ELSE Len(cols[1].values)
        start(i) == 1 + 2 * Len(cols)
                    + Total([j \in 1 .. i - 1 |-> rows * Width(cols[j].type)])
    IN IF \E i \in DOMAIN cols : Len(cols[i].values) # rows THEN BadColumns
       ELSE << [count |-> Len(cols), rows |-> rows] >>
            \o [i \in DOMAIN cols |-> [nameOff |-> i - 1, type |-> cols[i].type,
                                       off |-> start(i), rows |-> rows]]
            \o [i \in DOMAIN cols |-> cols[i].name]
            \o FlattenSeq(<< >> \o [i \in DOMAIN cols |-> Cells(cols[i].type, cols[i].values)])

\* write_perm: the primary document of every secondary one.
WritePerm(primaryOf) == WriteColumns(<< [name |-> "primary", type |-> "u32", values |-> primaryOf] >>)

\* SortCols::open.
OpenColumns(file) ==
    LET n == file[1].count
        meta == ReadAt(file, 0, 1 + 2 * n)
    IN [file |-> file, rows |-> file[1].rows,
        columns |-> << >> \o [i \in 1 .. n |->
            [name |-> meta[1 + n + meta[1 + i].nameOff + 1], type |-> meta[1 + i].type, off |-> meta[1 + i].off]]]

ColumnIndex(ix, name) ==
    LET found == {i \in DOMAIN ix.columns : ix.columns[i].name = name}
    IN IF found = {} THEN 0 ELSE Min(found)

\* Mutant: the extents are cut as if every value were as wide as the widest.
ValuesOfWidest(ix, col, ids) ==
    LET info == ix.columns[col]
        data == ReadCoalesced(ix.file,
                  << >> \o [i \in DOMAIN ids |-> [off |-> info.off + ids[i] * 2, len |-> 1]], ColumnGap)
    IN IF col \notin DOMAIN ix.columns \/ \E i \in DOMAIN ids : ids[i] >= ix.rows THEN BadQuery
       ELSE << >> \o [i \in DOMAIN ids |-> IF data[i] = << >> THEN 0 ELSE data[i][1]]

\* values: one coalesced wave over the documents' cells, in any order and with
\* repetitions.  A document past the rows is an error.
ColumnValues(ix, col, ids) ==
    LET info == ix.columns[col]
        w    == Width(info.type)
        data == ReadCoalesced(ix.file,
                  << >> \o [i \in DOMAIN ids |-> [off |-> info.off + ids[i] * w, len |-> w]], ColumnGap)
    IN IF col \notin DOMAIN ix.columns \/ \E i \in DOMAIN ids : ids[i] >= ix.rows THEN BadQuery
       ELSE << >> \o [i \in DOMAIN ids |-> data[i][1]]

\* value: nothing past the rows; values_u32 and slice_u32 need a u32 column, and
\* a slice stops at the last row.
ColumnValue(ix, col, id) == IF id >= ix.rows THEN << >> ELSE ColumnValues(ix, col, << id >>)
IsU32(ix, col) == col \in DOMAIN ix.columns /\ ix.columns[col].type = "u32"
ValuesU32(ix, col, ids) == IF IsU32(ix, col) THEN ColumnValues(ix, col, ids) ELSE BadQuery
SliceU32(ix, col, start, len) ==
    LET take == Min({len, Max({0, ix.rows - start})})
        data == ReadAt(ix.file, ix.columns[col].off + 2 * start, 2 * take)
    IN IF ~IsU32(ix, col) THEN BadQuery ELSE << >> \o [i \in 1 .. take |-> data[2 * i - 1]]

\* topk: by value in either direction, ties by document.
TopK(ix, col, candidates, k, descending) ==
    LET values == ColumnValues(ix, col, candidates)
        pairs  == << >> \o [i \in DOMAIN candidates |-> [doc |-> candidates[i], value |-> values[i]]]
        above(a, b) == IF descending THEN a.value > b.value ELSE a.value < b.value
        sorted == SortSeq(pairs, LAMBDA a, b : above(a, b) \/ (a.value = b.value /\ a.doc < b.doc))
    IN IF values = BadQuery THEN BadQuery
       ELSE << >> \o [i \in 1 .. Min({k, Len(sorted)}) |-> sorted[i].doc]
==============================================================================
