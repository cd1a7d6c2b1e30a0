SPECIFICATION FairSpec
CONSTANTS
  Tab = {t1, t2}
  MaxSignIns = 2
  MaxRestarts = 1
  MaxReloads = 1
INVARIANT SignInTypeOK
INVARIANT CodeYieldsOneToken
INVARIANT SignInFailsOnlyWhenDisturbed
INVARIANT RotationIsPickedUp
PROPERTY StaleSessionEnds
CHECK_DEADLOCK FALSE
