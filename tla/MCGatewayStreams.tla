-------------------------- MODULE MCGatewayStreams --------------------------
(* An instance of GatewayStreams for model checking.                        *)
EXTENDS GatewayStreams

MCMaxChunks == 2
=============================================================================
