CONSTANT None = None
CONSTANT PCMA = PCMA
CONSTANT G729 = G729
CONSTANT TE = TE
CONSTANT alice = alice
CONSTANT bob = bob
CONSTANT Codec <- Codecs
CONSTANT ALAW = PCMA
CONSTANT TelephoneEvent = TE
CONSTANT Sdp <- Descriptions
CONSTANT FaxPayload = 8
SPECIFICATION MediaSpec
INVARIANT LineCallSucceeds
INVARIANT AgreedCoder
INVARIANT OnlyWhatWasSaid
INVARIANT MediaOffAfterCall
PROPERTY LineIsKept
