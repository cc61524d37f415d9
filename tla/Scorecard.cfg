SPECIFICATION Spec
CONSTANTS
    Dims <- MCDims
    OutlierDim = "ACCURACY"
    Rulesets <- MCRulesets
    Policies <- MCPolicies
    Rows = 2
    MinOutlierSample = 2
INVARIANTS ScoreIsMean PassMeansClean PassIsPublished
PROPERTY RepairNeverHurts
