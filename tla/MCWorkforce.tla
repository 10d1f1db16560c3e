----------------------------- MODULE MCWorkforce -----------------------------
EXTENDS Workforce, TLC
CONSTANTS a1, a2, a3, c1, m

AgentSymmetry == Permutations(Agents)
=============================================================================
