-------------------------- MODULE MCThreatRegister --------------------------
(***************************************************************************)
(* Two alerts of one ZAP plugin on two sites, the graver one on the first; *)
(* two lines of nikto.                                                     *)
(***************************************************************************)
EXTENDS ThreatRegister, TLC

CONSTANTS zap1, zap2, line1, line2, r1, r2

MCTool == zap1 :> "zap" @@ zap2 :> "zap" @@ line1 :> "nikto" @@ line2 :> "nikto"
MCRule == zap1 :> "plugin" @@ zap2 :> "plugin" @@ line1 :> "nikto-observation"
          @@ line2 :> "nikto-observation"
MCPart == zap1 :> 1 @@ zap2 :> 2 @@ line1 :> 1 @@ line2 :> 1
MCRank == zap1 :> 1 @@ zap2 :> 3 @@ line1 :> 4 @@ line2 :> 4

RunSymmetry == Permutations({r1, r2})
=============================================================================
