---------------------------- MODULE MCDetection ----------------------------
(* Small instances of Detection for TLC: the values of its constants. *)
EXTENDS Detection

SubOfFirst == {1}
NoSub == {}

\* ffprobe's usual answer.
Good == [CodecName |-> "h264", Width |-> 1280, Height |-> 720,
         RFrameRate |-> <<30000, 1001>>, BitRate |-> 2097152, Profile |-> "Main"]
\* H.265, no bit rate, a frame rate whose denominator is 0.
Hevc == [CodecName |-> "hevc", Width |-> 2560, Height |-> 1440,
         RFrameRate |-> <<0, 0>>, BitRate |-> 0, Profile |-> "Main 10"]
\* A stream of which ffprobe knows nothing yet.
Blank == [CodecName |-> "", Width |-> 0, Height |-> 0,
          RFrameRate |-> <<>>, BitRate |-> 0, Profile |-> ""]

AnyAnswer == {Good, Hevc, Blank}
OneAnswer == {Hevc}
=============================================================================
