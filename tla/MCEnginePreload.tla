-------------------------- MODULE MCEnginePreload --------------------------
(* The families TLC looks at: two ASR to choose from, a diarizer and an     *)
(* optional one; whisper and nemo hand the variable on themselves.         *)
EXTENDS EnginePreload

MCOrder == <<"whisper", "parakeet", "nemo", "tone_text">>
=============================================================================
