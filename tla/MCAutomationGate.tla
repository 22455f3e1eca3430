--------------------------- MODULE MCAutomationGate ---------------------------
EXTENDS AutomationGate

MCJudgements == [f \in Files |->
    CASE f = "discovered-behavior"       -> {"missing"}
      [] f = "requirements-analysis"     -> {}
      [] f = "test-cases"                -> {"hard", "findings"}
      [] f = "automation-prioritization" -> {"clean", "manualOnly"}
      [] f = "defect-analysis"           -> {}
      [] OTHER                           -> {"missing", "unreadable", "clean"}]

MCAbove == [p \in {"tests", "spec", "config"} |-> IF p = "spec" THEN {"tests"} ELSE {}]
Tests == [kind |-> "testDir", path |-> "tests", examples |-> {"spec"}]
Whole == [layout |-> <<Tests>>, keyFiles |-> {"config"}, conventions |-> {"spec"}, config |-> "config", testDir |-> "tests",
          scripts |-> {"test"}, unknowns |-> {}]
Listed == [Whole EXCEPT !.layout = <<[Tests EXCEPT !.examples = {}]>>, !.conventions = {}, !.testDir = None, !.unknowns = {"tests"}]
Shallow == [Listed EXCEPT !.unknowns = {}]
MCAnalyses == {Whole, Listed, Shallow}
MCSymmetry == Permutations(Phase2Runs)
MCHistory == <<[files |-> {"tests", "spec", "config"}, scripts |-> {"test"}], [files |-> {"config"}, scripts |-> {"test"}],
               [files |-> {"tests", "spec", "config"}, scripts |-> {}]>>
=============================================================================
