-------------------------- MODULE StreamInfo_proof --------------------------
(* Lemmas about one merge, for every record and every answer of ffprobe. *)
EXTENDS StreamInfo, TLAPS

LEMMA QuotientType == ASSUME NEW a \in Nat, NEW b \in Nat, b > 0
                      PROVE  a \div b \in Nat
  OBVIOUS

LEMMA PositiveOr == ASSUME NEW n \in Int, NEW old \in Nat
                    PROVE  (IF n > 0 THEN n ELSE old) \in Nat
<1>1. CASE n > 0 BY <1>1
<1>2. CASE ~(n > 0) BY <1>2
<1> QED BY <1>1, <1>2

\* The codec written is one of the names of Upper's range, H265 for HEVC.
LEMMA CodecNamed == ASSUME NEW n \in CodecNames
                    PROVE  /\ ONVIFCodec(n) \in EncodingNames
                           /\ ONVIFCodec(n) \notin {"", "HEVC"}
  BY DEF ONVIFCodec, Upper, CodecNames, EncodingNames

\* A merge leaves a well-formed record.
LEMMA MergeType == ASSUME NEW info \in StreamInfoType, NEW st \in ProbeStream
                   PROVE  MergeProbe(info, st) \in StreamInfoType
<1>1. /\ info.FrameRate \in Nat /\ info.BitRate \in Nat
      /\ st.RFrameRate \in Seq(Nat) /\ st.BitRate \in Int
  BY DEF StreamInfoType, ProbeStream
<1>2. MergeFrameRate(info.FrameRate, st.RFrameRate) \in Nat
  <2>1. CASE Len(st.RFrameRate) = 2 /\ st.RFrameRate[2] > 0
    <3>1. st.RFrameRate[1] \in Nat /\ st.RFrameRate[2] \in Nat
      BY <1>1, <2>1
    <3>2. st.RFrameRate[1] \div st.RFrameRate[2] \in Nat
      BY <2>1, <3>1, QuotientType
    <3> QED BY <2>1, <3>2 DEF MergeFrameRate
  <2>2. CASE ~(Len(st.RFrameRate) = 2 /\ st.RFrameRate[2] > 0)
    BY <1>1, <2>2 DEF MergeFrameRate
  <2> QED BY <2>1, <2>2
<1>3. MergeBitRate(info.BitRate, st.BitRate) \in Nat
  BY <1>1 DEF MergeBitRate
<1>4. st.CodecName # "" => ONVIFCodec(st.CodecName) \in EncodingNames
  BY CodecNamed DEF ProbeStream
<1>5. /\ st.Width \in Int /\ st.Height \in Int /\ st.Profile \in ProfileNames \cup {""}
      /\ info.Width \in Nat /\ info.Height \in Nat
      /\ info.Codec \in EncodingNames \cup {""}
      /\ info.Profile \in ProfileNames \cup {""}
  BY DEF StreamInfoType, ProbeStream
<1>6. /\ (IF st.Width > 0 THEN st.Width ELSE info.Width) \in Nat
      /\ (IF st.Height > 0 THEN st.Height ELSE info.Height) \in Nat
  BY <1>5, PositiveOr
<1>7. /\ (IF st.CodecName # "" THEN ONVIFCodec(st.CodecName) ELSE info.Codec)
           \in EncodingNames \cup {""}
      /\ (IF st.Profile # "" THEN st.Profile ELSE info.Profile)
           \in ProfileNames \cup {""}
  BY <1>4, <1>5
<1> QED BY <1>2, <1>3, <1>6, <1>7 DEF MergeProbe, StreamInfoType

=============================================================================
