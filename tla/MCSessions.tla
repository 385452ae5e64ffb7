------------------------------ MODULE MCSessions ------------------------------
EXTENDS Sessions, TLC
CONSTANTS ann, o1, o2
OneFounder == ann :> {o1}
===============================================================================
