---------------------------- MODULE FileResponseMC ----------------------------
(* Instances of FileResponse for TLC.                                      *)
EXTENDS FileResponse

MCPrecompressed == <<"br", "gz">>
MCFiles ==
    {<<"file", Plain>>, <<"file", "gz">>, <<"file", "br">>, <<"page", Plain>>}
MCAtStart == <<<<"file", Plain>>, <<"file", "gz">>, <<"file", "br">>>>
(* Open ranges come from resumed downloads.                                *)
MCRanges == {[first |-> 0, last |-> 1], [first |-> None, last |-> 2]}
(* Sorted by quality, "gz" comes first and "br" is found by "*".            *)
MCAccepts ==
    {None, <<[name |-> "*", quality |-> 500], [name |-> Plain, quality |-> 800],
             [name |-> "gz", quality |-> 1000]>>}
=============================================================================
