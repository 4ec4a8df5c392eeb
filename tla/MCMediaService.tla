--------------------------- MODULE MCMediaService ---------------------------
(* Instances of MediaService: two NVRs, every shape of the configuration.   *)
EXTENDS MediaService, TLC
CONSTANTS c1, c2
MCClients == {c1, c2}
Symmetry == Permutations(MCClients)
\* The path of a substream that is not enabled plays no part in the properties.
MCCameras == {cam \in [SubstreamEnabled: BOOLEAN, SubstreamPath: BOOLEAN] :
                cam.SubstreamEnabled \/ ~cam.SubstreamPath}
\* A stream type, one profile or none, and two at once.
MCUriBodies == {[substreamType |-> TRUE, mentions |-> {"Profile000"}]} \cup
  {[substreamType |-> FALSE, mentions |-> m] :
     m \in {{}, {"Profile000"}, {"Profile001"}, {"Profile002"}, {"Profile000", "Profile002"}}}
\* GetVideoEncoderConfigurations lists this token, which nothing else knows.
MCOtherTokens == {"VideoEncoderToken"}
\* At the limit, and just above it.
MCBitrates == {1024, 1025}
=============================================================================
