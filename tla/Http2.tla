-------------------------------- MODULE Http2 --------------------------------
(***************************************************************************)
(* The vocabulary every module of the project shares: the frame types and  *)
(* flags of http2/*.h and the narrowing to uint8_t that C++ performs       *)
(* silently when a wider integer reaches an 8-bit field or parameter.      *)
(***************************************************************************)
EXTENDS Integers

(* enum FrameType *)
DATA          == 0
HEADERS       == 1
PRIORITY      == 2
RST_STREAM    == 3
SETTINGS      == 4
PUSH_PROMISE  == 5
PING          == 6
GOAWAY        == 7
WINDOW_UPDATE == 8
CONTINUATION  == 9

(* The naturals below k: the values of an unsigned field *)
Below(k) == {n \in Nat : n < k}

(* Conversion of an unsigned integer to uint8_t.  Where a definition is    *)
(* preceded by a variant "Name_What", that is the code with a bug a change *)
(* could bring in; the README says which property notices it.              *)
U8_SevenBits(n) == n % 128
U8_OneMore(n) == (n + 1) % 256
U8(n) == n % 256

(* enum StatusCode, the two codes the server ever writes *)
OK            == 0
UNIMPLEMENTED == 12
=============================================================================
