--------------------------- MODULE MCProgramming ----------------------------
EXTENDS Programming

MCCodeSizes == {4, 6, 8}
MCBytes     == {1, 2}
MCTorn      == 256
MCOld       == 257
MCKeep      == 258
MCValues    == MCBytes \cup {255, MCTorn, MCOld}

Record(code, a, data, field, sum_ok) ==
  [formed |-> TRUE, code |-> code, addr |-> a, len |-> Len(data),
   data |-> [k \in Cells |-> IF k < Len(data) THEN data[k + 1] ELSE 1],
   field |-> field, sum_ok |-> sum_ok]

Data(a, data)  == Record(0, a, data, 0, TRUE)
End            == Record(1, 0, << >>, 0, FALSE)
Extend(code, field, sum_ok) == Record(code, 0, <<1, 1>>, field, sum_ok)

\* A part below, one at and one above the size that a 16-bit number can count.
\* The files in turn: data up to the last block below the limit, corrected by a
\* later record, and no end record; a part of a page, corrected after a segment
\* extension that counts and one with a wrong checksum; a linear extension to 0,
\* and data with a wrong checksum, which is stored all the same; data past the
\* limit.
MCFiles == {
  <<Data(1, <<1, 2, 1, 1>>), Data(2, <<1>>)>>,
  <<Data(2, <<1>>), Extend(2, 1, TRUE), Extend(2, 0, FALSE), Data(0, <<2>>), End>>,
  <<Extend(4, 0, TRUE), Record(0, 2, <<2>>, 0, FALSE)>>,
  <<Extend(4, 1, TRUE), Data(0, <<1>>), End>> }
=============================================================================
