CONSTANT None = None
SPECIFICATION Spec
INVARIANT MediaSwitchSucceeds
