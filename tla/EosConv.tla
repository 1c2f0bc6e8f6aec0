------------------------------ MODULE EosConv ------------------------------
(***************************************************************************)
(* conv.c: Canon property data and the standard values they stand for.     *)
(* A row is <<value, data>>.                                               *)
(***************************************************************************)
EXTENDS Naturals, Sequences

\* canon_shutter: values are hundred thousandths of a second.
Shutter ==
  << <<0, 12>>, <<0, 4>>, <<3000000, 16>>, <<2500000, 19>>, <<2000000, 21>>,
     <<1500000, 24>>, <<1300000, 27>>, <<1000000, 29>>, <<800000, 32>>,
     <<600000, 35>>, <<500000, 37>>, <<400000, 40>>, <<320000, 43>>,
     <<250000, 45>>, <<200000, 48>>, <<160000, 51>>, <<130000, 53>>,
     <<100000, 56>>, <<80000, 59>>, <<60000, 61>>, <<50000, 64>>,
     <<40000, 67>>, <<30000, 69>>, <<25000, 72>>, <<20000, 75>>,
     <<16666, 77>>, <<12500, 80>> >>
  \o [i \in 1..30 |->
        LET part == <<10, 13, 15, 20, 25, 30, 40, 50, 60, 80, 100, 125, 160,
                      200, 250, 320, 400, 500, 640, 800, 1000, 1250, 1600,
                      2000, 2500, 3200, 4000, 5000, 6400, 8000>>
            code == <<83, 85, 88, 91, 93, 96, 99, 101, 104, 107, 109, 112, 115,
                      117, 120, 123, 125, 128, 131, 133, 136, 139, 141, 144,
                      147, 149, 152, 154, 157, 160>>
        IN  <<100000 \div part[i], code[i]>>]

\* canon_iso
Iso ==
  << <<0, 0>>, <<50, 64>>, <<100, 72>>, <<125, 75>>, <<160, 77>>, <<200, 80>>,
     <<250, 83>>, <<320, 85>>, <<400, 88>>, <<500, 91>>, <<640, 91>>,
     <<800, 96>>, <<1000, 99>>, <<1250, 101>>, <<1600, 104>>, <<3200, 112>>,
     <<6400, 120>>, <<12800, 128>> >>

\* canon_white_balance, as far as the loop of ptp_eos_get_white_balance goes:
\* its bound divides the size of a row by itself.
WhiteBalance == SubSeq(<< <<0, 0>>, <<1, 1>>, <<2, 8>>, <<3, 3>>, <<4, 4>> >>, 1, 1)

\* canon_aperture: tenths of an f-number.
Aperture ==
  LET value == <<12, 14, 16, 18, 20, 22, 25, 28, 32, 35, 40, 45, 50, 56, 63, 71,
                 80, 90, 100, 110, 130, 140, 160, 180, 200, 220, 250, 290, 320>>
      code == <<13, 16, 19, 21, 24, 27, 29, 32, 35, 37, 40, 43, 45, 48, 51, 53,
                56, 59, 61, 64, 67, 69, 72, 75, 77, 80, 83, 85, 88>>
  IN  [i \in 1..29 |-> <<value[i], code[i]>>]

Table(prop) == CASE prop = "shutter_speed" -> Shutter
                 [] prop = "iso" -> Iso
                 [] prop = "white_balance" -> WhiteBalance
                 [] prop = "aperture" -> Aperture

\* Mutant: the search runs from the last row.
LookupLast(table, from, to, x) ==
  LET hits == {i \in 1..Len(table) : table[i][from] = x}
  IN  IF hits = {} THEN x
      ELSE table[CHOOSE i \in hits : \A j \in hits : i >= j][to]

\* The first row with x in column "from" gives column "to"; what no row has is
\* passed through.
Lookup(table, from, to, x) ==
  LET hits == {i \in 1..Len(table) : table[i][from] = x}
  IN  IF hits = {} THEN x
      ELSE table[CHOOSE i \in hits : \A j \in hits : i <= j][to]

\* ptp_eos_get_* with dir 0 and with dir 1.
Value(prop, data) == Lookup(Table(prop), 2, 1, data)
Data(prop, value) == Lookup(Table(prop), 1, 2, value)
=============================================================================
