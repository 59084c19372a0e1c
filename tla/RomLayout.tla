----------------------------- MODULE RomLayout ------------------------------
(***************************************************************************)
(* How the scripts read ROM ranges off splat.yaml, which only lists where  *)
(* things begin: inventory-source-layout.py ends a code segment at the     *)
(* next segment and an RSP blob at the next subsegment, finalize-rsp-      *)
(* inventory.py verifies the blobs against the rebuilt ROM, and            *)
(* generate-rsp-config.py ends the data of aspMain at the next subsegment. *)
(*                                                                         *)
(* A layout is a sequence of segments in file order, [start, code, subs]:  *)
(* subs are its subsegments in file order, [start, form, kind], whose form *)
(* is "list" or "dict" as in the file.  Offsets are bytes.                 *)
(***************************************************************************)
EXTENDS Integers, Sequences, SequencesExt, FiniteSetsExt

CONSTANTS
  RomSize,   \* bytes of the locked ROM
  Rejected   \* the script fails

SegmentEnd(layout, k) ==
  Min({s.start : s \in {t \in Range(layout) : t.start > layout[k].start}} \cup {RomSize})

\* The segments of type code, from their start to the next start of any.
CodeSegments(layout) ==
  {<<layout[k].start, SegmentEnd(layout, k)>> : k \in {j \in DOMAIN layout : layout[j].code}}

\* Slip: the subsegment that follows in the file ends the blob.
MutBlobEnd(subs, k, end) == IF k < Len(subs) THEN subs[k + 1].start ELSE end

\* The least start of the list subsegments behind it in the file; the segment's
\* end if there is none.
BlobEnd(subs, k, end) ==
  LET following == {subs[j].start : j \in {i \in (k + 1)..Len(subs) : subs[i].form = "list"}}
  IN  IF following = {} THEN end ELSE Min(following)

\* [romStart, romEnd] of the RSP textbins of all code segments.
RspBlobs(layout) ==
  UNION {{<<layout[n].subs[k].start, BlobEnd(layout[n].subs, k, SegmentEnd(layout, n))>> :
            k \in {j \in DOMAIN layout[n].subs :
                     layout[n].subs[j].form = "list" /\ layout[n].subs[j].kind = "rsp"}} :
          n \in {m \in DOMAIN layout : layout[m].code}}

PlausibleBlob(b) == 0 <= b[1] /\ b[1] < b[2] /\ b[2] <= RomSize /\ b[1] % 8 = 0 /\ b[2] % 8 = 0

\* finalize-rsp-inventory.py, once the names and the ROM are the expected ones.
VerifiedBlobs(layout) ==
  IF \A b \in RspBlobs(layout) : PlausibleBlob(b) THEN RspBlobs(layout) ELSE Rejected

\* Slip: only the subsegments of the form `list` end the data.
MutLaterStarts(subs, k) == {subs[j].start : j \in {i \in (k + 1)..Len(subs) : subs[i].form = "list"}}

LaterStarts(subs, k) == {subs[j].start : j \in (k + 1)..Len(subs)}

\* find_databin_range: exactly one databin of the name, and something behind it.
find_databin_range(layout) ==
  LET databins == UNION {{<<n, k>> : k \in {j \in DOMAIN layout[n].subs :
                            layout[n].subs[j].form = "dict" /\ layout[n].subs[j].kind = "databin"}} :
                         n \in DOMAIN layout}
  IN  IF Cardinality(databins) # 1 THEN Rejected
      ELSE LET at == CHOOSE at \in databins : TRUE
               subs == layout[at[1]].subs
           IN  IF LaterStarts(subs, at[2]) = {} THEN Rejected
               ELSE <<subs[at[2]].start, Min(LaterStarts(subs, at[2]))>>

=============================================================================
