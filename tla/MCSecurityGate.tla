--------------------------- MODULE MCSecurityGate ---------------------------
(***************************************************************************)
(* Instances of SecurityGate: of every phase of config/scanners.json one   *)
(* scanner to three, with the flags they have there.                       *)
(***************************************************************************)
EXTENDS SecurityGate

MCScanners == {"semgrep", "checkov", "trivy-image", "grype", "schemathesis", "threagile"}

MCPhaseOf == [s \in MCScanners |->
    CASE s \in {"semgrep", "checkov", "trivy-image"} -> "shift-left"
      [] s = "grype" -> "sbom"
      [] s = "schemathesis" -> "api"
      [] s = "threagile" -> "threatmodel"]

MCTolerant == {"checkov", "schemathesis", "threagile"}

\* The action sets no PENTEST_IMAGE.
MCNoContext == {"trivy-image"}

MCRequired == [p \in Phases |->
    CASE p = "shift-left" -> {"semgrep", "checkov"}
      [] p = "sbom" -> {"grype"}
      [] p = "api" -> {"schemathesis"}
      [] p = "threatmodel" -> {"threagile"}]

MCSeverity == [s \in MCScanners \cup {"blackbox"} |->
    CASE s \in {"semgrep", "grype", "schemathesis"} -> "high"
      [] s = "checkov" -> "critical"
      [] s = "blackbox" -> "unknown"
      [] OTHER -> "medium"]

\* One high finding is allowed, so that it takes two scanners to exceed a limit.
MCLimit == [v \in Gated |->
    CASE v = "critical" -> 0 [] v = "high" -> 1 [] OTHER -> -1]
=============================================================================
