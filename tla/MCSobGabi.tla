------------------------------ MODULE MCSobGabi ------------------------------
(* Instances of the GABI driver for TLC, with the sizes of the 64 bit build.  *)
EXTENDS SobGabi, TLC

Header == 30
Page   == 4096

(* Around every size the code compares with, and lists of several pieces.     *)
RequestSizes  == {Header - 1, Header, Header + 1, Header + 2, Header + 16, Header + 20, Header + 21,
                  Header + 16 + 3 * Page}
ResponseSizes == {Header - 1, Header, Header + 12, Header + 13, Header + 16,
                  Header + 16 + 2 * Page + 1}

(* A list with an empty buffer that is one byte too short for the smaller     *)
(* count, and one cut unlike the driver's that holds the larger one.          *)
ShortList == {<<1, 0, Page>>, <<2 * Page, 0, Page + 1>>}
=============================================================================
