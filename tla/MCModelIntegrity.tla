--------------------------- MODULE MCModelIntegrity ---------------------------
(***************************************************************************)
(* Instances of ModelIntegrity for TLC.                                    *)
(***************************************************************************)
EXTENDS ModelIntegrity

\* One of the small files and the large one, in the order of the code.
MCFileSeq == <<"config.json", "model.onnx">>

MCLarge == {"model.onnx"}

MCMetas == {"original", "other"}
=============================================================================
