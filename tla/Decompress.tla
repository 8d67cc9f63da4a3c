----------------------------- MODULE Decompress -----------------------------
(***************************************************************************)
(* The image decompressor (compress/decompress.c): a program that nanoboot *)
(* runs like any image.  It checks the CRC of the package behind it,       *)
(* inflates it to where the image belongs, checks that all of it was       *)
(* consumed and that what came out is what went in, and calls the image.   *)
(*                                                                         *)
(* The package is made at build time by gzip2deflate.pl from a gzip file.  *)
(***************************************************************************)
EXTENDS Inflate, Crc32

CONSTANT Packages
  (* what may lie between packed_base and packed_end: records of           *)
  (*   bytes   the package and whatever is behind it in memory             *)
  (*   size    packed_end - packed_base                                    *)
  (*   plain   the image that was packed                                   *)
  (*   marks   where something ends in the package: bits, bytes of output  *)
  (*   verdict what becomes of it: "runs" or the message it stops at,   *)
  (*           and the status of puff()                                    *)

ASSUME PackagesAssumption ==
  \A p \in Packages : p.bytes \in Seq(0 .. 255) /\ p.size \in 4 .. Len(p.bytes)

VARIABLE status   (* how far main() is, or the message it stopped at       *)

decompressVars == <<inflateVars, status>>

FooterSize == 12   \* destcrc, destlen, srccrc

-----------------------------------------------------------------------------
(* gzip2deflate.pl                                                         *)

Flag(flg, bit) == (flg \div bit) % 2 = 1

\* readz(): the end of the name that begins behind i bytes.
NameEnd(gz, i) ==
  CHOOSE z \in i + 1 .. Len(gz) :
    gz[z] = 0 /\ \A k \in i + 1 .. z - 1 : gz[k] # 0

\* The number of bytes in front of the deflate data, of a file that is gzip,
\* deflated and without unknown flags: of any other the script makes no package.
SkipHeader(gz) ==
  LET flg     == gz[4]
      extra   == IF Flag(flg, 4) THEN 12 + gz[11] + 256 * gz[12] ELSE 10
      name    == IF Flag(flg, 8) THEN NameEnd(gz, extra) ELSE extra
      comment == IF Flag(flg, 16) THEN NameEnd(gz, name) ELSE name
  IN  IF Flag(flg, 2) THEN comment + 2 ELSE comment

\* What is left: the deflate data and the gzip footer.
Deflated(gz) == SubSeq(gz, SkipHeader(gz) + 1, Len(gz))

\* The package, with the CRC of what is left behind it.
Gzip2Deflate(gz, crc) == Deflated(gz) \o crc

-----------------------------------------------------------------------------
(* main()                                                                  *)

\* The 32-bit word at an offset of a package.
WordAt(bytes, offset) ==
  {i \in Word : (bytes[offset + i \div 8 + 1] \div 2^(i % 8)) % 2 = 1}

Load32(offset) == WordAt(in, offset)

Footer  == source.size - FooterSize
destcrc == Load32(Footer)
destlen == Load32(Footer + 4)
srccrc  == Load32(Footer + 8)

\* Mutant: the message is printed, but main() goes on.
CheckSourceWarns ==
  /\ status = "check source"
  /\ status' = "unpack"
  /\ UNCHANGED inflateVars

CheckSource ==
  /\ status = "check source"
  /\ status' = IF Crc32(SubSeq(in, 1, source.size - 4)) = srccrc
                 THEN "unpack" ELSE "input crc mismatch"
  /\ UNCHANGED inflateVars

Unpack ==
  /\ status = "unpack"
  /\ Puff
  /\ UNCHANGED status

\* Mutant: what lies between the data and the footer does not matter.
CheckResultOutputOnly ==
  /\ status = "unpack"
  /\ at \in {"done", "failed"}
  /\ status' = IF at = "failed" THEN "decompression status"
               ELSE IF WordOf(Len(out)) # destlen THEN "output length mismatch"
               ELSE IF Crc32(out) # destcrc THEN "output crc mismatch"
               ELSE "runs"
  /\ UNCHANGED inflateVars

\* puff() has returned; the image is called if everything agrees.
CheckResult ==
  /\ status = "unpack"
  /\ at \in {"done", "failed"}
  /\ status' = IF at = "failed" THEN "decompression status"
               ELSE IF incnt # Footer THEN "input length mismatch"
               ELSE IF WordOf(Len(out)) # destlen THEN "output length mismatch"
               ELSE IF Crc32(out) # destcrc THEN "output crc mismatch"
               ELSE "runs"
  /\ UNCHANGED inflateVars

\* main() has returned to nanoboot, or called the image for good.  The flush of
\* the caches before the call leaves everything here as it is; module Cache has
\* the same cache_flush(), before nanoboot's own call.
Left == status \notin {"check source", "unpack"} /\ UNCHANGED decompressVars

DecompressInit ==
  /\ source \in Packages
  /\ status = "check source"
  /\ InflateInit

DecompressNext == CheckSource \/ Unpack \/ CheckResult \/ Left

DecompressSpec == DecompressInit /\ [][DecompressNext]_decompressVars

-----------------------------------------------------------------------------

DecompressTypeOK ==
  /\ at \in {"header", "stored", "dynamic", "lengths", "codes", "done", "failed"}
  /\ bitcnt \in 0 .. 7 /\ bitbuf \in 0 .. 2^bitcnt - 1
  /\ incnt \in 0 .. source.size
  /\ out \in Seq(0 .. 255)
  /\ last \in BOOLEAN
  /\ nlen \in 0 .. MAXLCODES /\ ndist \in 0 .. MAXDCODES
  /\ Len(lengths) <= nlen + ndist /\ lengths \in Seq(0 .. MAXBITS)
  /\ \A h \in {lencode, distcode} : h.left >= 0 => h.symbol \in Seq(0 .. FIXLCODES - 1)
  /\ err \in -10 .. 0 /\ (at = "failed") = (err # 0)

\* puff() stays in step with the file: after every step it is at the end of
\* something the compressor wrote (a header, a code length, a token, stored
\* data with its padding), and has put out exactly what that and everything
\* before it stands for (the bit buffer of puff.c:107, emptied in 149 and
\* refilled a byte at a time, and the canonical codes of 206 and 305).
InStep ==
  status = "unpack" /\ at # "failed" =>
    /\ <<8 * incnt - bitcnt, Len(out)>> \in source.marks
    /\ out = SubSeq(source.plain, 1, Len(out))

\* The packages whose CRC is right.
Sealed ==
  {p \in Packages :
     Crc32(SubSeq(p.bytes, 1, p.size - 4)) = WordAt(p.bytes, p.size - 4)}

\* They differ, but only within four neighbouring bytes.
DifferNearby(p, q) ==
  /\ p.size = q.size
  /\ LET damage == {k \in 1 .. p.size : p.bytes[k] # q.bytes[k]}
     IN  \E i \in damage : damage \subseteq i .. i + 3

\* Damage to four neighbouring bytes of a package that was in order, its CRC
\* included, is always noticed before puff() starts, which relies on the
\* package being well-formed: the CRC is linear, one-to-one in its state and
\* each 32 bits of data (crc32.c:65), and the check covers everything in
\* front of the CRC itself (decompress.c:31).
DamageRefused ==
  status \notin {"check source", "input crc mismatch"} =>
    \A p \in Sealed : ~DifferNearby(source, p)

\* Every package meets the end it deserves: one that is intact is unpacked
\* and run and none is refused; one damaged in any byte never reaches puff();
\* one that was put together wrongly stops with the status that puff.c:697
\* lists for its first error, or at the check of decompress.c that it fails;
\* and what runs is the image that was packed.
Verdict ==
  status \notin {"check source", "unpack"} =>
    /\ <<status, err>> = source.verdict
    /\ status = "runs" => out = source.plain

=============================================================================
