---------------------------- MODULE MCSmbiosCook -----------------------------
(* Structures for TLC: every type, in the lengths of the versions of the      *)
(* SMBIOS specification that define it and in longer ones; lists of the       *)
(* lengths the buffer has room for, of one more and of all a byte can say.    *)
EXTENDS SmbiosCook

Lengths ==
  << <<0, {\h12, \h13, \h18}>>, <<1, {\h08, \h19, \h1B}>>, <<2, {\h08, \h0F}>>,
     <<3, {\h09, \h0D, \h15}>>, <<4, {\h1A, \h20, \h28}>>, <<6, {\h0C}>>,
     <<7, {\h0F, \h13}>>, <<8, {\h09}>>, <<16, {\h0F, \h17}>>,
     <<17, {\h15, \h17, \h22}>>, <<19, {\h0F, \h1F}>>, <<20, {\h13, \h23}>>,
     <<32, {\h0B, \h14}>>, <<127, {4}>>, <<15, {\h17}>>, <<208, {9}>> >>

StringLists == {<<>>, <<1, MaxString, MaxString>>}

Uniform(n) == [i \in 1 .. n |-> MaxString]

MCStructures ==
  UNION { {Structure(Lengths[i][1], l, 0, strings) : l \in Lengths[i][2], strings \in StringLists} :
          i \in DOMAIN Lengths }
  \union {Structure(5, 15 + 2 * n, n, <<>>) : n \in {0, 1, 32, 33, 120}}
  \union {Structure(5, 16 + 2 * n, n, <<>>) : n \in {0, 1, 32, 33, 119}}
  \union {Structure(9, l, n, strings) : l \in {\h0C, \h0D, \h11}, n \in {3, 4, 6, 7, 200},
                                        strings \in StringLists}
  \union {Structure(10, 4 + 2 * n, 0, Uniform(n)) : n \in {0, 1, 2, 15, 16, 125}}
  \union {Structure(t, 5, n, Uniform(n)) : t \in {11, 12}, n \in {0, 1, 2, 36, 37}}
  \union {Structure(t, 5, n, <<1, MaxString>>) : t \in {11, 12}, n \in {2, 255}}
  \union {Structure(13, \h16, n, Uniform(n)) : n \in {1, 2, 36, 37}}
=============================================================================
