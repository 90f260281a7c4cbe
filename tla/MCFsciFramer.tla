---------------------------- MODULE MCFsciFramer ----------------------------
(* Boards for TLC: streams of frames, junk and damaged frames, of a board that *)
(* sends two bytes of length and one of CRC, and of one with the CRC of a      *)
(* virtual interface.                                                          *)
EXTENDS FsciFramer

\* A frame without data, one whose data is a SYNC and a byte, one with a wrong
\* CRC, a byte of junk, the header of a frame over the MTU; a frame with one
\* byte of length and two of CRC, and one whose CRC is wrong.
Empty    == <<2, 1, 1, 0, 0, 0>>
WithSync == <<2, 1, 2, 2, 0, 2, 1, 2>>
BadCrc   == <<2, 1, 1, 0, 0, 7>>
Stray    == <<5>>
Oversize == <<2, 1, 1, 1, 8>>
Virtual  == <<2, 1, 2, 1, 9, 6, 13>>
BadVirt  == <<2, 1, 2, 1, 9, 6, 12>>

Board(l, c, s) == [lengthSize |-> l, crcSize |-> c, bytes |-> s]
MCBoards ==
  {Board(2, 1, s) : s \in {Empty \o Empty \o Empty, WithSync \o Stray \o Empty,
                           Stray \o BadCrc \o Empty, Oversize \o Stray \o WithSync,
                           Empty \o Oversize \o Empty}}
    \union {Board(1, 2, s) : s \in {Virtual \o BadVirt \o Virtual}}

=============================================================================
