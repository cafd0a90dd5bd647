SPECIFICATION Spec
CONSTANTS
    b1 = b1
    Browsers = {b1}
    Nonce = Nonce
    Salt = Salt
    Verifier = Verifier
    ReturnURL = ReturnURL
INVARIANT OwnStateAccepted
