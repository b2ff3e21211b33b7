SPECIFICATION Spec
CONSTANTS
    POSTS = 2
    PRESSES = 2
    Ssids = {"none", "short", "long"}
    Passwords = {"none", "long"}
    None = None
INVARIANT WifiInv
PROPERTY NoLeftovers
PROPERTY RequestTakesEffect
PROPERTY PressRecovers
