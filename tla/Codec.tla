------------------------------- MODULE Codec -------------------------------
(* Lengths of what the tile manager copies, encodes and decodes             *)
(* (src/src/btrLeMgr_utils.cpp, send_Rand_T_Notification).                   *)
EXTENDS Integers

\* std::string::copy of at most count characters from a position on; it
\* throws out_of_range when the string ends before that position.
CopyThrows(length, pos) == pos > length
Copied(length, count, pos) == IF length - pos < count THEN length - pos ELSE count

\* hexStringToByteArray: byte_arr_len
HexBytes(digits) == digits \div 2

\* The base64 encoder: four characters for three bytes, "=" to fill up.
Padding(bytes) == (3 - (bytes % 3)) % 3
EncodedLength(bytes) == 4 * ((bytes + Padding(bytes)) \div 3)

\* calcDecodeLength
CalcDecodeLength(length, padding) == (length * 3) \div 4 - padding

\* decodeBase64 accepts a text when it decodes to the calculated length.
Decodes(bytes) == CalcDecodeLength(EncodedLength(bytes), Padding(bytes)) = bytes
=============================================================================
