SPECIFICATION Spec
CONSTANTS
    Publishers = {"publisher"}
    Versions <- MCVersions
    Stems = {"08_15"}
    Stem <- MCStem
    Drafts <- MCDrafts
    Role <- MCRole
    Stamps = {0, 1}
INVARIANTS ManifestMatches RecommendationSupported
PROPERTIES WriteOnce TargetSafeguarded
