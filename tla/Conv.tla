-------------------------------- MODULE Conv --------------------------------
(***************************************************************************)
(* Integers in network byte order (lib/ngtcp2_conv.c).  What is written is *)
(* a sequence of octets; p is an index of it.                              *)
(***************************************************************************)
EXTENDS Integers, Sequences

\* The width lowest octets of n: ngtcp2_put_uint64be, .. ngtcp2_put_uint16be.
RECURSIVE ngtcp2_put_uint(_, _)
ngtcp2_put_uint(n, width) ==
  IF width = 0 THEN <<>>
  ELSE Append(ngtcp2_put_uint(n \div 256, width - 1), n % 256)

\* ngtcp2_get_uint64, .. ngtcp2_get_uint16
RECURSIVE ngtcp2_get_uint(_, _, _)
ngtcp2_get_uint(s, p, width) ==
  IF width = 0 THEN 0
  ELSE ngtcp2_get_uint(s, p, width - 1) * 256 + s[p + width - 1]

ngtcp2_put_varint_len(n) ==
  IF n < 64 THEN 1 ELSE IF n < 16384 THEN 2 ELSE IF n < 1073741824 THEN 4 ELSE 8

\* The two highest bits of the first octet are the logarithm of the length.
VarintPrefix(len) == CASE len = 1 -> 0 [] len = 2 -> 64 [] len = 4 -> 128 [] len = 8 -> 192

ngtcp2_put_varint(n) ==
  LET width == IF n < 64 THEN 1
               ELSE IF n < 16384 THEN 2
               ELSE IF n < 1073741824 THEN 4 ELSE 8
  IN  [ngtcp2_put_uint(n, width) EXCEPT ![1] = @ + VarintPrefix(width)]

ngtcp2_get_varint_len(octet) == 2 ^ (octet \div 64)

ngtcp2_get_varint(s, p) ==
  ngtcp2_get_uint([s EXCEPT ![p] = @ % 64], p, ngtcp2_get_varint_len(s[p]))
=============================================================================
