---------------------------- MODULE StreamInfo ----------------------------
(***************************************************************************)
(* The stream metadata record of internal/onvif/stream.go and the way one  *)
(* ffprobe answer is merged into it.  Nothing here changes state: the      *)
(* operators are used by Detection and by the lemmas about the merge.      *)
(*                                                                         *)
(* An ffprobe answer is the struct the JSON is decoded into, with three    *)
(* conversions done where the code does them: CodecName is one of the      *)
(* names ffprobe prints ("" when absent), RFrameRate is the sequence of    *)
(* numbers left by splitting the text at "/" (<<>> for "", and a part that *)
(* is not a number is 0, as strconv.Atoi leaves it), and BitRate is the    *)
(* number in the text, 0 when it is absent or not a number.                *)
(***************************************************************************)
EXTENDS Integers, Sequences

\* The names that occur: ffprobe's of codecs, their upper-case forms with
\* ONVIF's name for HEVC, and profiles, which are passed on as they come.
CodecNames == {"h264", "hevc", "mpeg4", "mjpeg"}
EncodingNames == {"H264", "HEVC", "H265", "MPEG4", "MJPEG"}
ProfileNames == {"Baseline", "Main", "Main 10", "High"}

StreamInfoType == [Width: Nat, Height: Nat, Codec: EncodingNames \cup {""},
                   FrameRate: Nat, BitRate: Nat, Profile: ProfileNames \cup {""}]

\* The values NewServer gives the two records.
MainDefault == [Width |-> 1920, Height |-> 1080, Codec |-> "H264",
                FrameRate |-> 25, BitRate |-> 4096, Profile |-> "High"]
SubDefault  == [Width |-> 640, Height |-> 480, Codec |-> "H264",
                FrameRate |-> 15, BitRate |-> 512, Profile |-> "Baseline"]

\* strings.ToUpper
Upper(name) == CASE name = "h264" -> "H264" [] name = "hevc" -> "HEVC"
                 [] name = "mpeg4" -> "MPEG4" [] name = "mjpeg" -> "MJPEG"

ProbeStream == [CodecName: CodecNames \cup {""}, Width: Int, Height: Int,
                RFrameRate: Seq(Nat), BitRate: Int,
                Profile: ProfileNames \cup {""}]

\* Fault: HEVC is not renamed.
FaultCodecVerbatim(name) == Upper(name)

ONVIFCodec(name) == IF Upper(name) = "HEVC" THEN "H265" ELSE Upper(name)

\* "num/den"; any other shape, and a denominator of 0, leaves the old rate.
MergeFrameRate(old, parts) ==
  IF Len(parts) = 2 /\ parts[2] > 0 THEN parts[1] \div parts[2] ELSE old

\* bits per second to kbps; the guard is on the value before the division.
MergeBitRate(old, bps) == IF bps > 0 THEN bps \div 1024 ELSE old

\* What detectStreamInfo does to the record under the write lock.
MergeProbe(info, st) ==
  [Width     |-> IF st.Width > 0 THEN st.Width ELSE info.Width,
   Height    |-> IF st.Height > 0 THEN st.Height ELSE info.Height,
   Codec     |-> IF st.CodecName # "" THEN ONVIFCodec(st.CodecName) ELSE info.Codec,
   Profile   |-> IF st.Profile # "" THEN st.Profile ELSE info.Profile,
   FrameRate |-> MergeFrameRate(info.FrameRate, st.RFrameRate),
   BitRate   |-> MergeBitRate(info.BitRate, st.BitRate)]

=============================================================================
