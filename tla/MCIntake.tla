------------------------------ MODULE MCIntake ------------------------------
EXTENDS Intake
CONSTANTS h1, s1, o1, o2, r1, r2, a, b
MCScenarios == {{h1, s1, o1, o2}, {r1, r2}, {h1, r1}}
MCTwo == <<r1, r2>>
=============================================================================
