-------------------------- MODULE MCTranscription --------------------------
(***************************************************************************)
(* Transcription for TLC: the labels of a diarizer are interchangeable.    *)
(***************************************************************************)
EXTENDS Transcription

Symmetry == Permutations(Labels)
=============================================================================
