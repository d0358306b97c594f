--------------------------- MODULE MCCsatSurveyItem ---------------------------
EXTENDS CsatSurveyItem

CONSTANTS k1, k2, s1, s2

================================================================================
